---------------------------- MODULE Spec2Model ----------------------------
(***************************************************************************)
(* A model of the collision core of Platypus.                              *)
(*                                                                         *)
(*   HandlerCollision  src/src/components/HandlerCollision.js              *)
(*   collision-group   src/src/components/collision-group.js               *)
(*                                                                         *)
(* The handler keeps a spatial grid (againstGrid) of the registered        *)
(* bodies and, once per frame (check-collision-group), classifies the      *)
(* bodies, resolves groups, resolves solid bodies, broadcasts the moves of *)
(* non-colliders and reports soft overlaps.                                *)
(*                                                                         *)
(* Classes the handler uses that are not part of these sources (AABB,      *)
(* CollisionShape, the per-entity collision component, the collision data  *)
(* container, Array.union / greenSplice) are modelled from the written     *)
(* specification and from the way the handler uses them; they are marked   *)
(* so where they are defined.                                              *)
(*                                                                         *)
(* Coordinates are integers.  Shapes are axis-aligned rectangles given by  *)
(* an offset from the entity position and two half extents.                *)
(***************************************************************************)
EXTENDS Integers, Sequences, FiniteSets, TLC

VARIABLES
    defs,              \* entity -> its definition (fixed in a run)
    entities,          \* entity -> its mutable fields
    solidEntities,     \* entity -> member list of its collision-group component
    againstGrid,       \* HandlerCollision.againstGrid: cell key -> type -> list
    terrain,           \* HandlerCollision.terrain
    allEntitiesLive,   \* lists filled by checkCamera
    solidEntitiesLive,
    softEntitiesLive,
    nonColliders,
    groupsLive,
    pc,                \* position inside the check-collision-group handler
    frame,             \* number of frames started
    log,               \* events triggered during the current frame
    trace,             \* bookkeeping of the current frame (see FrameTrace)
    lastOp,            \* the last handler operation and what it returned
    ops,               \* number of grid operations made
    delayMessage,      \* the LogicDelayMessage component: events, queue, queueTimes
    delayTrace,        \* bookkeeping of the delayed messages (see RecordedOf)
    axisCall,          \* a call of the axis resolver: its arguments and what it returned
    cellCall,          \* two cells and the keys computed for them
    newEntity,         \* an Entity under construction: components, saved events, deliveries
    audioVO            \* the AudioVO component: eventList, the player, what was triggered

vars == <<defs, entities, solidEntities, againstGrid, terrain, allEntitiesLive,
          solidEntitiesLive, softEntitiesLive, nonColliders, groupsLive, pc,
          frame, log, trace, lastOp, ops, delayMessage, delayTrace, axisCall,
          cellCall, newEntity, audioVO>>

DelayVars == <<delayMessage, delayTrace>>

OtherVars == <<cellCall, newEntity, audioVO>>

\* no LogicDelayMessage component
NoDelayMessage == [events |-> <<>>, queue |-> <<>>, queueTimes |-> <<>>]

NoDelayTrace ==
    [clock |-> 0, made |-> 0, tickets |-> <<>>, cancelled |-> {}, threw |-> FALSE,
     op |-> "none", name |-> "", message |-> "none", delta |-> 0, before |-> <<>>,
     outlived |-> {}]

\* no call of the axis resolver
NoAxisCall == [made |-> FALSE]

\* no cell keys computed, no Entity under construction, no AudioVO component
NoCellCall == [made |-> FALSE]

NoEntity == [stage |-> "none"]

NoAudioVO == [stage |-> "none"]

NoOthers == cellCall = NoCellCall /\ newEntity = NoEntity /\ audioVO = NoAudioVO

---------------------------------------------------------------------------
(* Bounds of the model *)

MaxOps == 4
MaxMoves == 2
MaxFrames == 1

\* The bodies of a run
Ent == 1..3

---------------------------------------------------------------------------
(* Small helpers *)

\* a list and a map with every element worked out
Listed(s) == s \o <<>>

Mapped(f) == f @@ <<>>

\* the element of a one-element set; The({F(x) : x \in {v}}) is F(v) with v
\* worked out once
The(S) == CHOOSE x \in S : TRUE

Abs(n) == IF n < 0 THEN -n ELSE n

Min(a, b) == IF a < b THEN a ELSE b

Max(a, b) == IF a > b THEN a ELSE b

Rev(s) == Listed([i \in 1..Len(s) |-> s[Len(s) + 1 - i]])

Range(s) == {s[i] : i \in 1..Len(s)}

Count(s, v) == Cardinality({i \in 1..Len(s) : s[i] = v})

\* Array.prototype.indexOf, 1-based; 0 when absent
IndexOf(s, v) == IF v \in Range(s) THEN CHOOSE i \in 1..Len(s) : s[i] = v /\ \A j \in 1..(i - 1) : s[j] /= v ELSE 0

\* Array.prototype.greenSplice(index): removes one element, keeps the order
GreenSplice(s, i) == Listed([j \in 1..(Len(s) - 1) |-> IF j < i THEN s[j] ELSE s[j + 1]])

RECURSIVE Union(_, _)
\* Array.prototype.union(array): appends the items not yet in the list
Union(host, arr) ==
    IF arr = <<>> THEN host
    ELSE Union(IF Head(arr) \in Range(host) THEN host ELSE Append(host, Head(arr)), Tail(arr))

---------------------------------------------------------------------------
(* Entity definitions: the collision part of an entity's JSON definition.  *)
(* collisionTypes, the shapes of each type, the solid and soft collision   *)
(* maps, and the flags the handler reads.                                  *)

Rect(ox, oy, hw, hh) == [type |-> "rectangle", ox |-> ox, oy |-> oy, hw |-> hw, hh |-> hh]

Definition(name) ==
    CASE name = "hero" ->
           [name |-> name, collisionTypes |-> <<"hero">>,
            shapes |-> [t \in {"hero"} |-> <<Rect(0, 0, 5, 5)>>],
            solid |-> [t \in {"hero"} |-> <<"block">>],
            soft |-> [t \in {"hero"} |-> <<"coin">>],
            immobile |-> FALSE, bullet |-> FALSE, jumpThrough |-> FALSE, group |-> FALSE]
      [] name = "shot" ->
           [name |-> name, collisionTypes |-> <<"hero">>,
            shapes |-> [t \in {"hero"} |-> <<Rect(0, 0, 1, 1)>>],
            solid |-> [t \in {"hero"} |-> <<"block">>],
            soft |-> [t \in {"hero"} |-> <<>>],
            immobile |-> FALSE, bullet |-> TRUE, jumpThrough |-> FALSE, group |-> FALSE]
      [] name = "block" ->
           [name |-> name, collisionTypes |-> <<"block">>,
            shapes |-> [t \in {"block"} |-> <<Rect(0, 0, 5, 5)>>],
            solid |-> [t \in {"block"} |-> <<>>],
            soft |-> [t \in {"block"} |-> <<>>],
            immobile |-> FALSE, bullet |-> FALSE, jumpThrough |-> FALSE, group |-> FALSE]
      [] name = "wall" ->
           [name |-> name, collisionTypes |-> <<"block">>,
            shapes |-> [t \in {"block"} |-> <<Rect(0, 0, 1, 5)>>],
            solid |-> [t \in {"block"} |-> <<>>],
            soft |-> [t \in {"block"} |-> <<>>],
            immobile |-> TRUE, bullet |-> FALSE, jumpThrough |-> FALSE, group |-> FALSE]
      [] name = "crate" ->
           [name |-> name, collisionTypes |-> <<"block">>,
            shapes |-> [t \in {"block"} |-> <<Rect(0, 0, 5, 5)>>],
            solid |-> [t \in {"block"} |-> <<"block">>],
            soft |-> [t \in {"block"} |-> <<>>],
            immobile |-> FALSE, bullet |-> FALSE, jumpThrough |-> FALSE, group |-> FALSE]
      [] name = "anchor" ->
           \* a crate flagged immobile
           [name |-> name, collisionTypes |-> <<"block">>,
            shapes |-> [t \in {"block"} |-> <<Rect(0, 0, 5, 5)>>],
            solid |-> [t \in {"block"} |-> <<"block">>],
            soft |-> [t \in {"block"} |-> <<>>],
            immobile |-> TRUE, bullet |-> FALSE, jumpThrough |-> FALSE, group |-> FALSE]
      [] name = "barge" ->
           \* a crate that carries a collision-group component
           [name |-> name, collisionTypes |-> <<"block">>,
            shapes |-> [t \in {"block"} |-> <<Rect(0, 0, 5, 5)>>],
            solid |-> [t \in {"block"} |-> <<"block">>],
            soft |-> [t \in {"block"} |-> <<>>],
            immobile |-> FALSE, bullet |-> FALSE, jumpThrough |-> FALSE, group |-> TRUE]
      [] name = "coin" ->
           [name |-> name, collisionTypes |-> <<"coin">>,
            shapes |-> [t \in {"coin"} |-> <<Rect(0, 0, 2, 2)>>],
            solid |-> [t \in {"coin"} |-> <<>>],
            soft |-> [t \in {"coin"} |-> <<"hero">>],
            immobile |-> FALSE, bullet |-> FALSE, jumpThrough |-> FALSE, group |-> FALSE]
      [] name = "raft" ->
           \* a hero-shaped body that carries a collision-group component
           [name |-> name, collisionTypes |-> <<"hero">>,
            shapes |-> [t \in {"hero"} |-> <<Rect(0, 0, 5, 5)>>],
            solid |-> [t \in {"hero"} |-> <<"block">>],
            soft |-> [t \in {"hero"} |-> <<>>],
            immobile |-> FALSE, bullet |-> FALSE, jumpThrough |-> FALSE, group |-> TRUE]
      [] name = "rider" ->
           \* two collision types, both with solid collisions
           [name |-> name, collisionTypes |-> <<"hero", "feet">>,
            shapes |-> [t \in {"hero", "feet"} |->
                           IF t = "hero" THEN <<Rect(0, 0, 5, 5)>> ELSE <<Rect(0, 4, 3, 1)>>],
            solid |-> [t \in {"hero", "feet"} |-> <<"block">>],
            soft |-> [t \in {"hero", "feet"} |-> <<>>],
            immobile |-> FALSE, bullet |-> FALSE, jumpThrough |-> FALSE, group |-> FALSE]
      [] name = "scout" ->
           [name |-> name, collisionTypes |-> <<"sensor", "hero">>,
            shapes |-> [t \in {"sensor", "hero"} |->
                           IF t = "sensor" THEN <<Rect(0, 0, 500, 500)>>
                           ELSE <<Rect(-499, -499, 1, 1)>>],
            solid |-> [t \in {"sensor", "hero"} |-> IF t = "hero" THEN <<"block">> ELSE <<>>],
            soft |-> [t \in {"sensor", "hero"} |-> IF t = "sensor" THEN <<"coin">> ELSE <<>>],
            immobile |-> FALSE, bullet |-> FALSE, jumpThrough |-> FALSE, group |-> FALSE]
      [] name = "strider" ->
           \* a rider whose feet reach past its body on the right
           [name |-> name, collisionTypes |-> <<"hero", "feet">>,
            shapes |-> [t \in {"hero", "feet"} |->
                           IF t = "hero" THEN <<Rect(0, 0, 5, 5)>> ELSE <<Rect(4, 4, 3, 1)>>],
            solid |-> [t \in {"hero", "feet"} |-> <<"block">>],
            soft |-> [t \in {"hero", "feet"} |-> <<>>],
            immobile |-> FALSE, bullet |-> FALSE, jumpThrough |-> FALSE, group |-> FALSE]
      [] name = "tracer" ->
           \* a shot with two collision types
           [name |-> name, collisionTypes |-> <<"hero", "feet">>,
            shapes |-> [t \in {"hero", "feet"} |-> <<Rect(0, 0, 1, 1)>>],
            solid |-> [t \in {"hero", "feet"} |-> <<"block">>],
            soft |-> [t \in {"hero", "feet"} |-> <<>>],
            immobile |-> FALSE, bullet |-> TRUE, jumpThrough |-> FALSE, group |-> FALSE]
      [] name = "shell" ->
           \* a bullet as large as a hero
           [name |-> name, collisionTypes |-> <<"hero">>,
            shapes |-> [t \in {"hero"} |-> <<Rect(0, 0, 5, 5)>>],
            solid |-> [t \in {"hero"} |-> <<"block">>],
            soft |-> [t \in {"hero"} |-> <<>>],
            immobile |-> FALSE, bullet |-> TRUE, jumpThrough |-> FALSE, group |-> FALSE]
      [] name = "fork" ->
           \* a bullet of two small rectangles far apart
           [name |-> name, collisionTypes |-> <<"hero">>,
            shapes |-> [t \in {"hero"} |-> <<Rect(-9, 0, 1, 1), Rect(9, 0, 1, 1)>>],
            solid |-> [t \in {"hero"} |-> <<"block">>],
            soft |-> [t \in {"hero"} |-> <<>>],
            immobile |-> FALSE, bullet |-> TRUE, jumpThrough |-> FALSE, group |-> FALSE]
      [] name = "picker" ->
           \* a hero that also reports the coins it overlaps
           [name |-> name, collisionTypes |-> <<"hero">>,
            shapes |-> [t \in {"hero"} |-> <<Rect(0, 0, 5, 5)>>],
            solid |-> [t \in {"hero"} |-> <<"block">>],
            soft |-> [t \in {"hero"} |-> <<"coin">>],
            immobile |-> FALSE, bullet |-> FALSE, jumpThrough |-> FALSE, group |-> FALSE]
      [] name = "dot" ->
           \* a bullet whose shape has no width
           [name |-> name, collisionTypes |-> <<"hero">>,
            shapes |-> [t \in {"hero"} |-> <<Rect(0, 0, 0, 1)>>],
            solid |-> [t \in {"hero"} |-> <<"block">>],
            soft |-> [t \in {"hero"} |-> <<>>],
            immobile |-> FALSE, bullet |-> TRUE, jumpThrough |-> FALSE, group |-> FALSE]
      [] OTHER ->
           \* "ghost": an entity with an empty collisionTypes list
           [name |-> "ghost", collisionTypes |-> <<>>,
            shapes |-> [t \in {} |-> <<>>],
            solid |-> [t \in {} |-> <<>>],
            soft |-> [t \in {} |-> <<>>],
            immobile |-> FALSE, bullet |-> FALSE, jumpThrough |-> FALSE, group |-> FALSE]

\* the definition entity e was made from
Def(e) == defs[e]


---------------------------------------------------------------------------
(* AABB (platypus.AABB, not part of these sources): four bounds and an     *)
(* "empty" mark; an empty AABB has no extent and is left out of unions.    *)

EmptyAABB == [empty |-> TRUE, left |-> 0, top |-> 0, right |-> 0, bottom |-> 0]

\* AABB.setBounds(left, top, right, bottom)
SetBounds(l, t, r, b) == [empty |-> FALSE, left |-> l, top |-> t, right |-> r, bottom |-> b]

\* AABB.include(aabb): the union, an empty operand left out
Include(a, b) ==
    IF b.empty THEN a
    ELSE IF a.empty THEN b
    ELSE SetBounds(Min(a.left, b.left), Min(a.top, b.top), Max(a.right, b.right), Max(a.bottom, b.bottom))

\* AABB.equals(aabb): the same bounds; an AABB without extent equals nothing
AABBEquals(a, b) ==
    /\ ~a.empty
    /\ ~b.empty
    /\ a.left = b.left
    /\ a.top = b.top
    /\ a.right = b.right
    /\ a.bottom = b.bottom

\* AABB.collides(aabb): the interiors overlap (touching edges do not collide)
AABBCollides(a, b) ==
    /\ ~a.empty
    /\ ~b.empty
    /\ a.left < b.right
    /\ a.right > b.left
    /\ a.top < b.bottom
    /\ a.bottom > b.top

AABBWidth(a) == a.right - a.left

AABBHeight(a) == a.bottom - a.top

RECURSIVE IncludeAll(_, _)
IncludeAll(a, boxes) == IF boxes = <<>> THEN a ELSE IncludeAll(Include(a, Head(boxes)), Tail(boxes))

---------------------------------------------------------------------------
(* Shapes (platypus.CollisionShape, not part of these sources).  The shapes *)
(* of an entity are fixed by its definition and placed at the position the *)
(* entity's collision component last moved them to.                        *)

\* the i-th shape of collision type t of entity e, the entity being at (px, py)
ShapeAt(e, t, i, px, py) ==
    LET d == Def(e).shapes[t][i]
    IN [type |-> d.type, owner |-> e, collisionType |-> t,
        x |-> px + d.ox, y |-> py + d.oy, hw |-> d.hw, hh |-> d.hh]

\* CollisionShape.aABB
ShapeAABB(s) == SetBounds(s.x - s.hw, s.y - s.hh, s.x + s.hw, s.y + s.hh)

\* CollisionShape.collides(shape), rectangle against rectangle
ShapeCollides(s1, s2) == AABBCollides(ShapeAABB(s1), ShapeAABB(s2))

HasType(e, t) == t \in Range(Def(e).collisionTypes)

\* entity.getShapes(type): the current shapes
GetShapes(b, e, t) ==
    IF HasType(e, t)
    THEN Listed([i \in 1..Len(Def(e).shapes[t]) |-> ShapeAt(e, t, i, b[e].shapeX, b[e].shapeY)])
    ELSE <<>>

\* entity.getPrevShapes(type): the shapes at the start of the movement
GetPrevShapes(b, e, t) ==
    IF HasType(e, t)
    THEN Listed([i \in 1..Len(Def(e).shapes[t]) |-> ShapeAt(e, t, i, b[e].prevShapeX, b[e].prevShapeY)])
    ELSE <<>>

ShapeBoxes(shapes) == [i \in 1..Len(shapes) |-> ShapeAABB(shapes[i])]

\* entity.getAABB(type)
GetTypeAABB(b, e, t) == IncludeAll(EmptyAABB, ShapeBoxes(GetShapes(b, e, t)))

\* entity.getPreviousAABB(type)
GetPrevTypeAABB(b, e, t) == IncludeAll(EmptyAABB, ShapeBoxes(GetPrevShapes(b, e, t)))

\* entity.getAABB(): all collision types together
GetAABB(b, e) ==
    LET ts == Def(e).collisionTypes
    IN IncludeAll(EmptyAABB, [i \in 1..Len(ts) |-> GetTypeAABB(b, e, ts[i])])


---------------------------------------------------------------------------
(* The spatial grid of HandlerCollision.                                   *)
(* againstGrid maps a cell key to a DataMap from collision type to the     *)
(* list of bodies; both maps grow on demand, so both are functions whose   *)
(* domain is the set of keys present.                                      *)

gridBits == 8

RECURSIVE Pow2(_)
Pow2(n) == IF n = 0 THEN 1 ELSE 2 * Pow2(n - 1)

\* v >> n on a 32-bit integer
ShiftRight(v, n) == v \div Pow2(n)

RECURSIVE Xor16(_, _, _)
\* bitwise exclusive or of the low n bits of a and b
Xor16(a, b, n) ==
    IF n = 0 THEN 0
    ELSE (((a % 2) + (b % 2)) % 2) + (2 * Xor16(a \div 2, b \div 2, n - 1))

\* the key with y shifted by 8 bits only
ShortKey(x, y) == <<ShiftRight(x, 16) % Pow2(16), Xor16((y * Pow2(8)) % Pow2(16), x % Pow2(16), 16)>>

\* ((y << 16) ^ x) >>> 0, an unsigned 32-bit number, kept as its two 16-bit
\* halves <<high, low>>
CellKey(x, y) == <<Xor16(y % Pow2(16), ShiftRight(x, 16) % Pow2(16), 16), x % Pow2(16)>>

mapDown(aabb2) ==
    SetBounds(ShiftRight(aabb2.left, gridBits), ShiftRight(aabb2.top, gridBits),
              ShiftRight(aabb2.right, gridBits), ShiftRight(aabb2.bottom, gridBits))

\* the cells of a mapped-down AABB in the order of the two nested loops:
\* for (x = left..right) for (y = top..bottom)
CellsOf(aabb) ==
    LET w == aabb.right - aabb.left + 1
        h == aabb.bottom - aabb.top + 1
    IN IF w < 1 \/ h < 1 THEN <<>>
       ELSE Listed([i \in 1..(w * h) |-> CellKey(aabb.left + ((i - 1) \div h), aabb.top + ((i - 1) % h))])

\* list.get(type) of a cell: the list, or <<>> for "undefined"
CellGet(g, key, type) ==
    IF key \in DOMAIN g /\ type \in DOMAIN g[key] THEN g[key][type] ELSE <<>>

CellSet(g, key, type, arr) ==
    LET old == IF key \in DOMAIN g THEN g[key] ELSE [t \in {} |-> <<>>]
        new == [t \in DOMAIN old \cup {type} |-> IF t = type THEN arr ELSE old[t]]
    IN [k \in DOMAIN g \cup {key} |-> IF k = key THEN new ELSE g[k]]

\* the list after n rounds of "id = arr.indexOf(entity); if (id >= 0)
\* arr.greenSplice(id)": the first n occurrences of e are gone, the order of
\* the rest is kept
SpliceFirst(arr, e, n) ==
    LET keep == {i \in 1..Len(arr) : arr[i] /= e \/ Cardinality({j \in 1..i : arr[j] = e}) > n}
    IN Listed([j \in 1..Cardinality(keep) |-> arr[CHOOSE i \in keep : Cardinality({m \in keep : m <= i}) = j]])

\* the two nested loops of removeAgainst: every cell of the entity's cell
\* list and every collision type make one round on the list of that cell
\* and type (a cell or a type listed twice makes two rounds)
SpliceCells(g, cells, e, types) ==
    Mapped([k \in DOMAIN g |->
        Mapped([t \in DOMAIN g[k] |-> SpliceFirst(g[k][t], e, Count(cells, k) * Count(types, t))])])

\* removeAgainst(entity): the grid afterwards (entity.againstGrid is emptied by the caller)
removeAgainst(b, g, e) == SpliceCells(g, Rev(b[e].againstGrid), e, Rev(Def(e).collisionTypes))

\* the two nested loops of updateAgainst: every cell of the range and every
\* collision type push the entity once on the list of that cell and type,
\* the cell's map and the list being made when missing
PushCells(g, cells, e, types) ==
    Mapped([k \in DOMAIN g \cup Range(cells) |->
        Mapped([t \in (IF k \in DOMAIN g THEN DOMAIN g[k] ELSE {}) \cup (IF k \in Range(cells) THEN Range(types) ELSE {}) |->
            CellGet(g, k, t) \o [i \in 1..(Count(cells, k) * Count(types, t)) |-> e]])])

\* a re-indexing that neither tests the range nor removes the old entries
updateAgainstAlways(b, g, e) ==
    The({[b |-> [b EXCEPT ![e].againstAABB = mapDown(GetAABB(b, e)), ![e].againstGrid = cells],
          g |-> PushCells(g, cells, e, Rev(Def(e).collisionTypes))] :
         cells \in {CellsOf(mapDown(GetAABB(b, e)))}})

\* the test that guards re-indexing in updateAgainst
RangeChanged(aabb, againstAABB) == ~AABBEquals(aabb, againstAABB)

\* updateAgainst(entity): the entities and the grid afterwards
updateAgainst(b, g, e) ==
    The({IF RangeChanged(aabb, b[e].againstAABB)
         THEN The({[b |-> [b EXCEPT ![e].againstAABB = aabb, ![e].againstGrid = cells],
                    g |-> PushCells(removeAgainst(b, g, e), cells, e, Rev(Def(e).collisionTypes))] :
                   cells \in {CellsOf(aabb)}})
         ELSE [b |-> b, g |-> g] :
         aabb \in {mapDown(GetAABB(b, e))}})

\* addCollisionEntity(entity), for an entity with collisionTypes
addCollisionEntity(b, g, e) ==
    updateAgainst([b EXCEPT ![e].hasGrid = TRUE, ![e].againstGrid = <<>>, ![e].againstAABB = EmptyAABB], g, e)

\* removeCollisionEntity(entity)
removeCollisionEntity(b, g, e) ==
    IF b[e].hasGrid
    THEN [b |-> [b EXCEPT ![e].hasGrid = FALSE, ![e].againstGrid = <<>>, ![e].againstAABB = EmptyAABB],
          g |-> removeAgainst(b, g, e)]
    ELSE [b |-> b, g |-> g]


---------------------------------------------------------------------------
(* Queries of the grid.  A query returns a Data object from collision type *)
(* to a list of bodies.  Each list of the result is a new array            *)
(* (Array.setUp.apply(null, arr)), so recycling it after use leaves the    *)
(* cell's own list alone; "fresh" records that, "cell" where it came from. *)

NoData == [t \in {} |-> [list |-> <<>>, fresh |-> TRUE, cell |-> <<0, 0>>]]

\* data[type] = arr: the cell's own list, not a copy of it
SameList(arr, key) == [list |-> arr, fresh |-> FALSE, cell |-> key]

\* data[type] = Array.setUp.apply(null, arr)
NewList(arr, key) == [list |-> arr, fresh |-> TRUE, cell |-> key]

\* one cell list and one requested type: the body of both query loops
Gather(data, g, key, type) ==
    LET arr == CellGet(g, key, type)
    IN IF arr /= <<>>
       THEN IF type \notin DOMAIN data
            THEN Mapped([t \in DOMAIN data \cup {type} |-> IF t = type THEN NewList(arr, key) ELSE data[t]])
            ELSE [data EXCEPT ![type].list = Union(data[type].list, arr)]
       ELSE data

RECURSIVE GatherTypes(_, _, _, _)
GatherTypes(data, g, key, types) ==
    IF types = <<>> THEN data
    ELSE GatherTypes(Gather(data, g, key, Head(types)), g, key, Tail(types))

RECURSIVE GatherCells(_, _, _, _)
GatherCells(data, g, cells, types) ==
    IF cells = <<>> THEN data
    ELSE GatherCells(IF Head(cells) \in DOMAIN g THEN GatherTypes(data, g, Head(cells), types) ELSE data,
                     g, Tail(cells), types)

\* getEntityAgainstGrid(entity, types): the cells the entity is listed in
getEntityAgainstGrid(b, g, e, types) == GatherCells(NoData, g, Rev(b[e].againstGrid), Rev(types))

\* the shortcut test at the head of getAgainstGrid
SweepIsOwnRange(sweep, againstAABB) == AABBEquals(sweep, againstAABB)

\* getAgainstGrid(entity, sweep, types)
getAgainstGrid(b, g, e, sweep, types) ==
    IF SweepIsOwnRange(sweep, b[e].againstAABB)
    THEN getEntityAgainstGrid(b, g, e, types)
    ELSE GatherCells(NoData, g, CellsOf(mapDown(sweep)), Rev(types))

\* list.recycle() on one list of a query result: the array is emptied
RecycleList(g, entry, type) ==
    IF entry.fresh THEN g ELSE CellSet(g, entry.cell, type, <<>>)

RECURSIVE RecycleData(_, _, _)
\* otherEntities.recycle() for every requested type the result holds
RecycleData(g, data, types) ==
    IF types = <<>> THEN g
    ELSE RecycleData(IF Head(types) \in DOMAIN data THEN RecycleList(g, data[Head(types)], Head(types)) ELSE g,
                     data, Tail(types))

\* the lists of a query result, without the bookkeeping
Lists(data) == Mapped([t \in DOMAIN data |-> data[t].list])

---------------------------------------------------------------------------
(* checkEntityForSoftCollisions(ent, callback): the messages handed to the *)
(* callback, in order, and the grid after the result lists were recycled.  *)

\* the shape pairs in the order of the two nested loops (l--, m--)
ShapePairs(shapes, otherShapes) ==
    LET n == Len(shapes)
        k == Len(otherShapes)
    IN [i \in 1..(n * k) |-> <<shapes[n - ((i - 1) \div k)], otherShapes[k - ((i - 1) % k)]>>]

RECURSIVE FirstHit(_)
\* the first pair that collides, as a list of at most one pair
FirstHit(pairs) ==
    IF pairs = <<>> THEN <<>>
    ELSE IF ShapeCollides(Head(pairs)[1], Head(pairs)[2]) THEN <<Head(pairs)>>
    ELSE FirstHit(Tail(pairs))

\* the message with the two types in each other's place
SoftMessageSwapped(other, otherType, myType, shape) ==
    [entity |-> other, type |-> myType, myType |-> otherType, x |-> 0, y |-> 0,
     hitType |-> "soft", shape |-> shape]

SoftMessage(other, otherType, myType, shape) ==
    [entity |-> other, type |-> otherType, myType |-> myType, x |-> 0, y |-> 0,
     hitType |-> "soft", shape |-> shape]

\* the first colliding pair of shapes of the entity and another body, if
\* their AABBs of the two types collide
SoftHit(b, e, collisionType, otherEntity, otherCollisionType) ==
    IF /\ otherEntity /= e
       /\ AABBCollides(GetTypeAABB(b, e, collisionType), GetTypeAABB(b, otherEntity, otherCollisionType))
    THEN FirstHit(ShapePairs(GetShapes(b, e, collisionType), GetShapes(b, otherEntity, otherCollisionType)))
    ELSE <<>>

\* callback(message) for the pair found, if any
SoftCallback(hit, otherEntity, otherCollisionType, collisionType) ==
    IF hit = <<>> THEN <<>>
    ELSE <<SoftMessage(otherEntity, otherCollisionType, collisionType, hit[1][2])>>

RECURSIVE SoftOthers(_, _, _, _, _)
\* the k loop: the bodies of one other type, last first
SoftOthers(b, e, collisionType, otherCollisionType, others) ==
    IF others = <<>> THEN <<>>
    ELSE SoftCallback(SoftHit(b, e, collisionType, Head(others), otherCollisionType),
                      Head(others), otherCollisionType, collisionType)
         \o SoftOthers(b, e, collisionType, otherCollisionType, Tail(others))

RECURSIVE SoftSubTypes(_, _, _, _, _)
\* the j loop: the types of the soft collision map, last first
SoftSubTypes(b, e, collisionType, data, subTypes) ==
    IF subTypes = <<>> THEN <<>>
    ELSE (IF Head(subTypes) \in DOMAIN data
          THEN SoftOthers(b, e, collisionType, Head(subTypes), Rev(data[Head(subTypes)].list))
          ELSE <<>>)
         \o SoftSubTypes(b, e, collisionType, data, Tail(subTypes))

RECURSIVE SoftTypes(_, _, _, _)
\* the i loop: the collision types of the entity, last first
SoftTypes(b, g, e, types) ==
    IF types = <<>> THEN [msgs |-> <<>>, g |-> g]
    ELSE The({The({[msgs |-> SoftSubTypes(b, e, Head(types), data, Rev(Def(e).soft[Head(types)])) \o rest.msgs,
                    g |-> rest.g] :
                   rest \in {SoftTypes(b, RecycleData(g, data, Rev(Def(e).soft[Head(types)])), e, Tail(types))}}) :
              data \in {getEntityAgainstGrid(b, g, e, Def(e).soft[Head(types)])}})

\* `ag.length` of an entity the handler never registered (or has removed)
\* throws: entity.againstGrid is undefined (or null)
SoftCheckThrows(b, e) == Def(e).collisionTypes /= <<>> /\ ~b[e].hasGrid

checkEntityForSoftCollisions(b, g, e) == SoftTypes(b, g, e, Rev(Def(e).collisionTypes))


---------------------------------------------------------------------------
(* The collision component of one entity (not part of these sources): the  *)
(* methods the handler and the collision group call on an entity.          *)

\* entity.prepareCollision(x, y): the entity is put at the goal, its former
\* current shapes become the previous shapes and the shapes move to the goal
entityPrepareCollision(b, e, x, y) ==
    [b EXCEPT ![e].x = x, ![e].y = y,
              ![e].prevShapeX = b[e].shapeX, ![e].prevShapeY = b[e].shapeY,
              ![e].shapeX = x, ![e].shapeY = y]

\* entity.movePreviousX(x): the previous shapes are put at x
entityMovePreviousX(b, e, x) == [b EXCEPT ![e].prevShapeX = x]

\* "relocate-entity" on a body (entity.relocateEntity triggers it): the
\* collision component moves the body and its shapes to the position and
\* makes it the previous position
Relocated(b, e, x, y) ==
    [b EXCEPT ![e].x = x, ![e].y = y, ![e].previousX = x, ![e].previousY = y,
              ![e].shapeX = x, ![e].shapeY = y]

RECURSIVE Flatten(_)
\* the concatenation of a list of lists
Flatten(ss) == IF ss = <<>> THEN <<>> ELSE Head(ss) \o Flatten(Tail(ss))

---------------------------------------------------------------------------
(* collision-group: the member list solidEntities[o] of the group owned by *)
(* entity o, and the methods of owner.collisionGroup.  No member other     *)
(* than the owner carries a group of its own.                              *)

\* appendUniqueItems(hostArray, insertArray): only the items the host held
\* before the call are compared
appendUniqueItems(hostArray, insertArray) ==
    hostArray \o SelectSeq(insertArray, LAMBDA v : v \notin Range(hostArray))

\* the number of collision types of e that have solid collisions
SolidTypeCount(e) ==
    Cardinality({i \in 1..Len(Def(e).collisionTypes) : Def(e).solid[Def(e).collisionTypes[i]] /= <<>>})

\* collision-group addCollisionEntity(entity): one push per such type
groupAddCollisionEntity(list, e) ==
    IF Def(e).immobile THEN list ELSE list \o Listed([i \in 1..SolidTypeCount(e) |-> e])

\* collision-group removeCollisionEntity(entity): one splice per such type
groupRemoveCollisionEntity(list, e) == SpliceFirst(list, e, SolidTypeCount(e))

\* (childEntity !== this.owner) && childEntity.collisionGroup: member m of
\* the group of o stands for a group of its own
Nested(o, m) == m /= o /\ Def(m).group

\* collisionGroup.getSize()
getSize(o) == Len(solidEntities[o])

RECURSIVE getAllEntities(_)
RECURSIVE CountMembers(_, _)
CountMembers(o, members) ==
    IF members = <<>> THEN 0
    ELSE (IF Nested(o, Head(members)) THEN getAllEntities(Head(members)) ELSE 1) + CountMembers(o, Tail(members))

\* collisionGroup.getAllEntities()
getAllEntities(o) == CountMembers(o, solidEntities[o])

RECURSIVE getCollisionTypes(_)
RECURSIVE TypesOfMembers(_, _, _)
TypesOfMembers(compiledList, o, members) ==
    IF members = <<>> THEN compiledList
    ELSE TypesOfMembers(appendUniqueItems(compiledList,
                                          IF Nested(o, Head(members))
                                          THEN getCollisionTypes(Head(members))
                                          ELSE Def(Head(members)).collisionTypes),
                        o, Tail(members))

\* collisionGroup.getCollisionTypes()
getCollisionTypes(o) == TypesOfMembers(<<>>, o, solidEntities[o])

RECURSIVE getSolidCollisions(_, _)
RECURSIVE SolidsOfMembers(_, _, _, _)
SolidsOfMembers(compiledList, o, members, key) ==
    IF members = <<>> THEN compiledList
    ELSE SolidsOfMembers(IF Nested(o, Head(members))
                         THEN appendUniqueItems(compiledList, getSolidCollisions(Head(members), key))
                         ELSE IF HasType(Head(members), key)
                         THEN appendUniqueItems(compiledList, Def(Head(members)).solid[key])
                         ELSE compiledList,
                         o, Tail(members), key)

\* collisionGroup.getSolidCollisions(), read at one collision type
getSolidCollisions(o, key) == SolidsOfMembers(<<>>, o, solidEntities[o], key)

RECURSIVE getAABB(_, _, _)
\* collisionGroup.getAABB(collisionType)
getAABB(b, o, collisionType) ==
    IncludeAll(EmptyAABB, [i \in 1..Len(solidEntities[o]) |->
                              IF Nested(o, solidEntities[o][i])
                              THEN getAABB(b, solidEntities[o][i], collisionType)
                              ELSE GetTypeAABB(b, solidEntities[o][i], collisionType)])

RECURSIVE getPreviousAABB(_, _, _)
\* collisionGroup.getPreviousAABB(collisionType)
getPreviousAABB(b, o, collisionType) ==
    IncludeAll(EmptyAABB, [i \in 1..Len(solidEntities[o]) |->
                              IF Nested(o, solidEntities[o][i])
                              THEN getPreviousAABB(b, solidEntities[o][i], collisionType)
                              ELSE GetPrevTypeAABB(b, solidEntities[o][i], collisionType)])

RECURSIVE getShapes(_, _, _)
\* collisionGroup.getShapes(collisionType)
getShapes(b, o, collisionType) ==
    Flatten([i \in 1..Len(solidEntities[o]) |->
                IF Nested(o, solidEntities[o][i])
                THEN getShapes(b, solidEntities[o][i], collisionType)
                ELSE GetShapes(b, solidEntities[o][i], collisionType)])

RECURSIVE getPrevShapes(_, _, _)
\* collisionGroup.getPrevShapes(collisionType)
getPrevShapes(b, o, collisionType) ==
    Flatten([i \in 1..Len(solidEntities[o]) |->
                IF Nested(o, solidEntities[o][i])
                THEN getPrevShapes(b, solidEntities[o][i], collisionType)
                ELSE GetPrevShapes(b, solidEntities[o][i], collisionType)])

\* childEntity.saveDX = childEntity.x - childEntity.previousX, ...,
\* childEntity.saveOX = this.owner.previousX - childEntity.previousX, ...
SaveOffsets(b, o, m) ==
    [b EXCEPT ![m].saveDX = b[m].x - b[m].previousX,
              ![m].saveDY = b[m].y - b[m].previousY,
              ![m].saveOX = b[o].previousX - b[m].previousX,
              ![m].saveOY = b[o].previousY - b[m].previousY]

RECURSIVE prepareCollision(_, _, _, _)
RECURSIVE PrepareMembers(_, _, _, _, _)
\* the loop of prepareCollision over solidEntities, first to last
PrepareMembers(b, o, members, x, y) ==
    IF members = <<>> THEN b
    ELSE PrepareMembers(IF Nested(o, Head(members))
                        THEN prepareCollision(SaveOffsets(b, o, Head(members)), Head(members),
                                              x - (b[o].previousX - b[Head(members)].previousX),
                                              y - (b[o].previousY - b[Head(members)].previousY))
                        ELSE entityPrepareCollision(SaveOffsets(b, o, Head(members)), Head(members),
                                                    x - (b[o].previousX - b[Head(members)].previousX),
                                                    y - (b[o].previousY - b[Head(members)].previousY)),
                        o, Tail(members), x, y)

\* collisionGroup.prepareCollision(x, y)
prepareCollision(b, o, x, y) == PrepareMembers(b, o, solidEntities[o], x, y)

RECURSIVE movePreviousX(_, _, _)
RECURSIVE MovePreviousMembers(_, _, _, _)
MovePreviousMembers(b, o, members, x) ==
    IF members = <<>> THEN b
    ELSE MovePreviousMembers(IF Nested(o, Head(members))
                             THEN movePreviousX(b, Head(members), x - b[Head(members)].saveOX)
                             ELSE entityMovePreviousX(b, Head(members), x - b[Head(members)].saveOX),
                             o, Tail(members), x)

\* collisionGroup.movePreviousX(x)
movePreviousX(b, o, x) == MovePreviousMembers(b, o, solidEntities[o], x)

\* entity.x += entity.saveDX; entity.y += entity.saveDY; and for an entity
\* other than the owner, the owner's saveDX and saveDY on top
AddSaved(b, o, m) ==
    [b EXCEPT ![m].x = @ + b[m].saveDX + (IF m /= o THEN b[o].saveDX ELSE 0),
              ![m].y = @ + b[m].saveDY + (IF m /= o THEN b[o].saveDY ELSE 0)]

\* the owner's saveDX and saveDY at the head of relocateEntity: less the
\* distance the group was moved, or 0 when a record holds a shape of the owner
OwnerSaved(b, o, vx, vy, cdc) ==
    [b EXCEPT ![o].saveDX = IF \E i \in 1..Len(cdc.xData) : cdc.xData[i].thisShape.owner = o
                            THEN 0 ELSE @ - (vx - b[o].previousX),
              ![o].saveDY = IF \E i \in 1..Len(cdc.yData) : cdc.yData[i].thisShape.owner = o
                            THEN 0 ELSE @ - (vy - b[o].previousY)]

RECURSIVE relocateEntity(_, _, _, _, _)
RECURSIVE RelocateMembers(_, _, _, _, _, _)
\* the loop of relocateEntity over solidEntities, first to last
RelocateMembers(b, o, members, vx, vy, cdc) ==
    IF members = <<>> THEN b
    ELSE RelocateMembers(AddSaved(IF Nested(o, Head(members))
                                  THEN relocateEntity(b, Head(members), vx - b[Head(members)].saveOX,
                                                      vy - b[Head(members)].saveOY, cdc)
                                  ELSE Relocated(b, Head(members), vx - b[Head(members)].saveOX,
                                                 vy - b[Head(members)].saveOY),
                                  o, Head(members)),
                         o, Tail(members), vx, vy, cdc)

\* collisionGroup.relocateEntity(vector, collisionData)
relocateEntity(b, o, vx, vy, cdc) ==
    RelocateMembers(OwnerSaved(b, o, vx, vy, cdc), o, solidEntities[o], vx, vy, cdc)

---------------------------------------------------------------------------
(* Solid resolution.  "ent" is the entity resolved and isGroup tells       *)
(* whether entityOrGroup is ent.collisionGroup or ent itself.              *)

EogCollisionTypes(ent, isGroup) ==
    IF isGroup THEN getCollisionTypes(ent) ELSE Def(ent).collisionTypes

EogSolidCollisions(ent, isGroup, type) ==
    IF isGroup THEN getSolidCollisions(ent, type) ELSE Def(ent).solid[type]

EogAABB(b, ent, isGroup, type) ==
    IF isGroup THEN getAABB(b, ent, type) ELSE GetTypeAABB(b, ent, type)

EogPreviousAABB(b, ent, isGroup, type) ==
    IF isGroup THEN getPreviousAABB(b, ent, type) ELSE GetPrevTypeAABB(b, ent, type)

EogShapes(b, ent, isGroup, type) ==
    IF isGroup THEN getShapes(b, ent, type) ELSE GetShapes(b, ent, type)

EogPrevShapes(b, ent, isGroup, type) ==
    IF isGroup THEN getPrevShapes(b, ent, type) ELSE GetPrevShapes(b, ent, type)

EogPrepareCollision(b, ent, isGroup, x, y) ==
    IF isGroup THEN prepareCollision(b, ent, x, y) ELSE entityPrepareCollision(b, ent, x, y)

\* the previous shapes left where they were before the X axis was resolved
KeepPreviousX(b, ent, isGroup, x) == b

EogMovePreviousX(b, ent, isGroup, x) ==
    IF isGroup THEN movePreviousX(b, ent, x) ELSE entityMovePreviousX(b, ent, x)

EogRelocateEntity(b, ent, isGroup, vx, vy, cdc) ==
    IF isGroup THEN relocateEntity(b, ent, vx, vy, cdc) ELSE Relocated(b, ent, vx, vy)

\* CollisionData.setUp(): no collision occurred
NoShape == [type |-> "none", owner |-> 0, collisionType |-> "", x |-> 0, y |-> 0, hw |-> 0, hh |-> 0]

NoCollision ==
    [occurred |-> FALSE, direction |-> 0, position |-> 0, deltaMovement |-> 0,
     thisShape |-> NoShape, thatShape |-> NoShape, vector |-> <<0, 0>>]

\* CollisionDataContainer.setUp()
NoRecords == [xData |-> <<>>, yData |-> <<>>]

\* CollisionDataContainer.tryToAddX / tryToAddY on one of the two lists: a
\* record is refused when it moves further than the records held, replaces
\* them when it moves less, and joins them when it moves as far
TryToAdd(data, cd) ==
    IF data = <<>> THEN <<cd>>
    ELSE IF cd.deltaMovement > data[1].deltaMovement THEN data
    ELSE IF cd.deltaMovement < data[1].deltaMovement THEN <<cd>>
    ELSE Append(data, cd)

Coord(shape, axis) == IF axis = "x" THEN shape.x ELSE shape.y

\* CollisionShape.moveX / moveY
MoveShape(shape, axis, v) == IF axis = "x" THEN [shape EXCEPT !.x = v] ELSE [shape EXCEPT !.y = v]

\* a contact position that leaves out the extent of the moving shape
ContactAtCentre(axis, direction, thisShape, thatShape) ==
    IF axis = "x"
    THEN thatShape.x - (direction * thatShape.hw)
    ELSE thatShape.y - (direction * thatShape.hh)

\* findAxisCollisionPosition[axis].rectangle.rectangle: the position
ContactPosition(axis, direction, thisShape, thatShape) ==
    IF axis = "x"
    THEN thatShape.x - (direction * (thatShape.hw + thisShape.hw))
    ELSE thatShape.y - (direction * (thatShape.hh + thisShape.hh))

\* findAxisCollisionPosition[axis].rectangle.rectangle: the contact vector
ContactVector(axis, direction) == IF axis = "x" THEN <<direction, 0>> ELSE <<0, direction>>

\* the contact position taken as it is
Unclamped(direction, raw, initialPoint) == raw

\* the position a contact leaves the shape at: never behind the point the
\* movement began at
ClampedPosition(direction, raw, initialPoint) ==
    IF direction > 0
    THEN (IF raw < initialPoint THEN initialPoint ELSE raw)
    ELSE (IF raw > initialPoint THEN initialPoint ELSE raw)

\* the CollisionData of a contact at position
ContactData(axis, direction, initialPoint, position, currentShape, pcShape) ==
    [occurred |-> TRUE, direction |-> direction, position |-> position,
     deltaMovement |-> Abs(position - initialPoint),
     thisShape |-> currentShape, thatShape |-> pcShape,
     vector |-> ContactVector(axis, direction)]

RECURSIVE ScanShapes(_, _, _, _, _, _, _, _, _)
\* the loop of findMinShapeMovementCollision over the potential colliding
\* shapes, last first; finalPosition and cd are the loop's two variables
ScanShapes(i, pcs, translatedShape, currentShape, axis, direction, initialPoint, finalPosition, cd) ==
    IF i = 0 THEN cd
    ELSE IF /\ ShapeCollides(translatedShape, pcs[i])
            /\ IF direction > 0
               THEN ContactPosition(axis, direction, translatedShape, pcs[i]) < finalPosition
               ELSE ContactPosition(axis, direction, translatedShape, pcs[i]) > finalPosition
    THEN The({ScanShapes(i - 1, pcs, translatedShape, currentShape, axis, direction, initialPoint, position,
                         ContactData(axis, direction, initialPoint, position, currentShape, pcs[i])) :
              position \in {ClampedPosition(direction,
                                            ContactPosition(axis, direction, translatedShape, pcs[i]),
                                            initialPoint)}})
    ELSE ScanShapes(i - 1, pcs, translatedShape, currentShape, axis, direction, initialPoint, finalPosition, cd)

findMinShapeMovementCollision(prevShape, currentShape, axis, pcs) ==
    IF Coord(prevShape, axis) /= Coord(currentShape, axis)
    THEN ScanShapes(Len(pcs), pcs, MoveShape(prevShape, axis, Coord(currentShape, axis)), currentShape, axis,
                    IF Coord(prevShape, axis) < Coord(currentShape, axis) THEN 1 ELSE -1,
                    Coord(prevShape, axis), Coord(currentShape, axis), NoCollision)
    ELSE NoCollision

\* if (collisionData.occurred && (!bestCD.occurred || (collisionData.deltaMovement < bestCD.deltaMovement)))
CloserOf(cd, bestCD) ==
    IF cd.occurred /\ (~bestCD.occurred \/ cd.deltaMovement < bestCD.deltaMovement) THEN cd ELSE bestCD

RECURSIVE BestOfShapes(_, _, _, _, _, _)
\* the loop of findMinAxisMovement over the shapes of one type, last first
BestOfShapes(i, prevShapes, shapes, axis, pcs, bestCD) ==
    IF i = 0 THEN bestCD
    ELSE BestOfShapes(i - 1, prevShapes, shapes, axis, pcs,
                      CloserOf(findMinShapeMovementCollision(prevShapes[i], shapes[i], axis, pcs), bestCD))

findMinAxisMovement(b, ent, isGroup, collisionType, axis, pcs) ==
    The({BestOfShapes(Len(shapes), EogPrevShapes(b, ent, isGroup, collisionType), shapes, axis, pcs, NoCollision) :
         shapes \in {EogShapes(b, ent, isGroup, collisionType)}})

\* the record offered to the list whether a contact occurred or not
AddAlways(data, cd) == TryToAdd(data, cd)

\* if (cd.occurred) collisionDataCollection.tryToAddX(cd) (or tryToAddY)
AddIfOccurred(data, cd) == IF cd.occurred THEN TryToAdd(data, cd) ELSE data

RECURSIVE AxisOfTypes(_, _, _, _, _, _, _, _)
\* one of the two loops of resolveCollisionPosition over the collision
\* types, last first: the records list of the axis afterwards
AxisOfTypes(j, b, ent, isGroup, collisionTypes, axis, potentialCollidingShapes, data) ==
    IF j = 0 THEN data
    ELSE AxisOfTypes(j - 1, b, ent, isGroup, collisionTypes, axis, potentialCollidingShapes,
                     AddIfOccurred(data, findMinAxisMovement(b, ent, isGroup, collisionTypes[j], axis,
                                                             potentialCollidingShapes[j])))

\* the records of one axis after its loop, which runs if the entity moved
\* along the axis
AxisData(b, ent, isGroup, potentialCollidingShapes, data, collisionTypes, axis, delta) ==
    IF delta /= 0
    THEN AxisOfTypes(Len(collisionTypes), b, ent, isGroup, collisionTypes, axis, potentialCollidingShapes, data)
    ELSE data

\* finalMovementInfo.x (or .y): the previous position moved by the first
\* record of the axis, or the goal when there is none
FinalPoint(previous, goal, data) ==
    IF data /= <<>> THEN previous + (data[1].deltaMovement * data[1].direction) ELSE goal

\* resolveCollisionPosition: the X axis, movePreviousX to the resolved X,
\* then the Y axis
resolveCollisionPosition(b, ent, isGroup, potentialCollidingShapes, cdc, collisionTypes, entityDeltaX, entityDeltaY) ==
    The({The({The({[b |-> b1, cdc |-> [xData |-> xData, yData |-> yData],
                    fin |-> <<FinalPoint(b[ent].previousX, b[ent].x, xData),
                              FinalPoint(b1[ent].previousY, b1[ent].y, yData)>>] :
                   yData \in {AxisData(b1, ent, isGroup, potentialCollidingShapes, cdc.yData,
                                       collisionTypes, "y", entityDeltaY)}}) :
              b1 \in {EogMovePreviousX(b, ent, isGroup, FinalPoint(b[ent].previousX, b[ent].x, xData))}}) :
         xData \in {AxisData(b, ent, isGroup, potentialCollidingShapes, cdc.xData,
                             collisionTypes, "x", entityDeltaX)}})

\* includeEntity of processCollisionStep
includeEntity(thisEntity, aabb, otherEntity, otherAABB, ignoredEntities, sweepAABB) ==
    IF otherEntity = thisEntity THEN FALSE
    ELSE IF Def(otherEntity).jumpThrough /\ aabb.bottom > otherAABB.top THEN FALSE
    ELSE IF Def(thisEntity).jumpThrough /\ otherAABB.bottom > aabb.top THEN FALSE
    ELSE IF otherEntity \in Range(ignoredEntities) THEN FALSE
    ELSE AABBCollides(sweepAABB, otherAABB)

\* the bodies the grid returned for one sub-type, last first
OthersOf(data, subType) == IF subType \in DOMAIN data THEN Rev(data[subType].list) ELSE <<>>

\* the shapes of the bodies of one sub-type that includeEntity lets through
IncludedShapes(b, ent, previousAABB, sweepAABB, ignoredEntities, subType, others) ==
    Flatten([k \in 1..Len(others) |->
                IF includeEntity(ent, previousAABB, others[k], GetTypeAABB(b, others[k], subType),
                                 ignoredEntities, sweepAABB)
                THEN Rev(GetShapes(b, others[k], subType))
                ELSE <<>>])

\* whether includeEntity lets a body of one sub-type through
AnyIncluded(b, ent, previousAABB, sweepAABB, ignoredEntities, subType, others) ==
    \E k \in 1..Len(others) :
        includeEntity(ent, previousAABB, others[k], GetTypeAABB(b, others[k], subType), ignoredEntities, sweepAABB)

\* a tile of a tile layer: a rectangle of one collision type without owner
TileAt(x, y, hw, hh, collisionType) ==
    [type |-> "rectangle", owner |-> 0, collisionType |-> collisionType, x |-> x, y |-> y, hw |-> hw, hh |-> hh]

\* the tile layers an entity with a CollisionTiles component can bring
TileLayers == {[name |-> "tiles", tiles |-> <<TileAt(12, 0, 2, 5, "block"), TileAt(-12, 0, 2, 5, "block")>>]}

\* terrain.getTileShapes(sweepAABB, previousAABB, collisionType): the tiles
\* of that type the swept area meets
getTileShapes(layer, sweepAABB, previousAABB, collisionType) ==
    SelectSeq(layer.tiles, LAMBDA s : s.collisionType = collisionType /\ AABBCollides(sweepAABB, ShapeAABB(s)))

\* the tile layer a reference held by the handler stands for
LayerNamed(name) == The({layer \in TileLayers : layer.name = name})

TileShapesOfAnyLayer(terr, sweepAABB, previousAABB, collisionType) ==
    Rev(getTileShapes(The(TileLayers), sweepAABB, previousAABB, collisionType))

\* "else if (terrain)": the tile shapes pushed, last first
TerrainShapes(terr, sweepAABB, previousAABB, collisionType) ==
    IF terr = "null" THEN <<>> ELSE Rev(getTileShapes(LayerNamed(terr), sweepAABB, previousAABB, collisionType))

\* the shapes of the bodies let through followed by those of the terrain,
\* whatever the grid returned
BodyAndTileShapes(b, ent, previousAABB, sweepAABB, ignoredEntities, subType, data) ==
    IncludedShapes(b, ent, previousAABB, sweepAABB, ignoredEntities, subType, OthersOf(data, subType))
        \o TerrainShapes(terrain, sweepAABB, previousAABB, subType)

\* the candidate shapes of one sub-type: those of the bodies the grid
\* returned, or, if it returned none of the sub-type, those of the terrain
SubTypeShapes(b, ent, previousAABB, sweepAABB, ignoredEntities, subType, data) ==
    IF subType \in DOMAIN data
    THEN IncludedShapes(b, ent, previousAABB, sweepAABB, ignoredEntities, subType, OthersOf(data, subType))
    ELSE TerrainShapes(terrain, sweepAABB, previousAABB, subType)

\* whether the sub-type has set potentialCollision
SubTypeCollides(b, ent, previousAABB, sweepAABB, ignoredEntities, subType, data) ==
    IF subType \in DOMAIN data
    THEN AnyIncluded(b, ent, previousAABB, sweepAABB, ignoredEntities, subType, OthersOf(data, subType))
    ELSE TerrainShapes(terrain, sweepAABB, previousAABB, subType) /= <<>>

\* what the loop over the sub-types (last first) makes of the grid's answer
FoundShapes(b, g, ent, previousAABB, sweepAABB, ignoredEntities, collisionSubTypes, data) ==
    [shapes |-> Flatten([jj \in 1..Len(collisionSubTypes) |->
                   SubTypeShapes(b, ent, previousAABB, sweepAABB, ignoredEntities,
                                 collisionSubTypes[Len(collisionSubTypes) + 1 - jj], data)]),
     potentialCollision |->
         \E j \in 1..Len(collisionSubTypes) :
             SubTypeCollides(b, ent, previousAABB, sweepAABB, ignoredEntities, collisionSubTypes[j], data),
     sweep |-> sweepAABB,
     g |-> RecycleData(g, data, Rev(collisionSubTypes))]

\* the body of the loop of processCollisionStep for one collision type: the
\* sweep, the broad-phase query and the shapes of the bodies let through
SweepType(b, g, ent, isGroup, ignoredEntities, collisionType) ==
    The({The({The({FoundShapes(b, g, ent, previousAABB, sweepAABB, ignoredEntities, collisionSubTypes,
                               getAgainstGrid(b, g, ent, sweepAABB, collisionSubTypes)) :
                   collisionSubTypes \in {EogSolidCollisions(ent, isGroup, collisionType)}}) :
              sweepAABB \in {Include(EogAABB(b, ent, isGroup, collisionType), previousAABB)}}) :
         previousAABB \in {EogPreviousAABB(b, ent, isGroup, collisionType)}})

RECURSIVE SweepTypes(_, _, _, _, _, _, _)
\* the loop of processCollisionStep over the collision types, last first
SweepTypes(i, b, g, ent, isGroup, ignoredEntities, collisionTypes) ==
    IF i = 0 THEN [g |-> g, found |-> <<>>]
    ELSE The({The({[g |-> rest.g,
                    found |-> Append(rest.found, [shapes |-> one.shapes,
                                                  potentialCollision |-> one.potentialCollision])] :
                   rest \in {SweepTypes(i - 1, b, one.g, ent, isGroup, ignoredEntities, collisionTypes)}}) :
              one \in {SweepType(b, g, ent, isGroup, ignoredEntities, collisionTypes[i])}})

\* the second half of processCollisionStep: resolveCollisionPosition if a
\* body was let through
ResolveSwept(b, ent, isGroup, cdc, finalMovementInfo, entityDeltaX, entityDeltaY, collisionTypes, swept) ==
    IF \E i \in 1..Len(collisionTypes) : swept.found[i].potentialCollision
    THEN The({[b |-> r.b, g |-> swept.g, cdc |-> r.cdc, fin |-> r.fin] :
              r \in {resolveCollisionPosition(b, ent, isGroup,
                                              [i \in 1..Len(collisionTypes) |-> swept.found[i].shapes],
                                              cdc, collisionTypes, entityDeltaX, entityDeltaY)}})
    ELSE [b |-> b, g |-> swept.g, cdc |-> cdc, fin |-> finalMovementInfo]

processCollisionStep(b, g, ent, isGroup, ignoredEntities, cdc, finalMovementInfo, entityDeltaX, entityDeltaY, collisionTypes) ==
    ResolveSwept(b, ent, isGroup, cdc, finalMovementInfo, entityDeltaX, entityDeltaY, collisionTypes,
                 SweepTypes(Len(collisionTypes), b, g, ent, isGroup, ignoredEntities, collisionTypes))

\* step = min(step, 100)
maxSteps == 100

\* the number of steps without the cap
UncappedSteps(d, size) ==
    IF size = 0 THEN 2 * maxSteps ELSE (Abs(d) + size - 1) \div size

\* Math.ceil(|d| / s) capped at maxSteps; a size of 0 gives Infinity
CappedSteps(d, size) ==
    IF size = 0 THEN maxSteps ELSE Min((Abs(d) + size - 1) \div size, maxSteps)

\* the width (or height) of the AABB of one collision type
SizeOf(aabb, wide) == IF aabb.empty THEN 0 ELSE IF wide THEN AABBWidth(aabb) ELSE AABBHeight(aabb)

\* Math.min on the loop variable, which starts at Infinity ("none")
LeastOf(rest, size) ==
    IF rest.none THEN [none |-> FALSE, size |-> size] ELSE [none |-> FALSE, size |-> Min(rest.size, size)]

RECURSIVE MinSize(_, _, _, _, _)
\* the loop over the collision types that finds sW or sH; 0 types leave
\* Infinity, told by "none"
MinSize(i, b, ent, isGroup, wide) ==
    IF i = 0 THEN [none |-> TRUE, size |-> 0]
    ELSE LeastOf(MinSize(i - 1, b, ent, isGroup, wide),
                 SizeOf(EogAABB(b, ent, isGroup, EogCollisionTypes(ent, isGroup)[i]), wide))

\* Math.min(Math.ceil(Math.max(|dX| / sW, |dY| / sH)), 100)
StepsOf(sW, sH, dX, dY) ==
    IF sW.none THEN 0
    ELSE IF (sW.size = 0 /\ dX = 0) \/ (sH.size = 0 /\ dY = 0) THEN 0
    ELSE Max(CappedSteps(dX, sW.size), CappedSteps(dY, sH.size))

\* a bullet that is not stepped: the whole movement in one step
SingleStep(b, ent, isGroup, dX, dY) == 1

\* the number of steps of a bullet: 0 stands for NaN (0 / 0 on one axis),
\* with which the stepping loop does not run
StepCount(b, ent, isGroup, dX, dY) ==
    StepsOf(MinSize(Len(EogCollisionTypes(ent, isGroup)), b, ent, isGroup, TRUE),
            MinSize(Len(EogCollisionTypes(ent, isGroup)), b, ent, isGroup, FALSE), dX, dY)

\* the contacts the shapes of the body have on one axis in a step: one
\* findMinShapeMovementCollision for every shape of every collision type
ContactsFound(b, ent, isGroup, collisionTypes, axis, pcs, delta) ==
    IF delta = 0 THEN <<>>
    ELSE SelectSeq(Flatten([j \in 1..Len(collisionTypes) |->
                      [i \in 1..Len(EogShapes(b, ent, isGroup, collisionTypes[j])) |->
                          findMinShapeMovementCollision(EogPrevShapes(b, ent, isGroup, collisionTypes[j])[i],
                                                        EogShapes(b, ent, isGroup, collisionTypes[j])[i],
                                                        axis, pcs[j])]]),
                   LAMBDA cd : cd.occurred)

\* what a pass did, for the record: where it began (p), its goal (g), where
\* it ended (fin), the potential colliding shapes of each type, the contacts
\* found on each axis and the records held before and after it
StepTaken(st, b1, r, ent, isGroup, collisionTypes, dX, dY, pcs) ==
    [pX |-> st.b[ent].previousX, pY |-> st.b[ent].previousY,
     gX |-> b1[ent].x, gY |-> b1[ent].y, finX |-> r.fin[1], finY |-> r.fin[2],
     shapes |-> pcs, held |-> st.cdc, kept |-> r.cdc,
     xFound |-> ContactsFound(b1, ent, isGroup, collisionTypes, "x", pcs, dX),
     yFound |-> ContactsFound(EogMovePreviousX(b1, ent, isGroup, r.fin[1]), ent, isGroup, collisionTypes,
                              "y", pcs, dY)]

\* the potential colliding shapes of each collision type in a pass
ShapesSwept(b1, g, ent, isGroup, ignoredEntities, collisionTypes) ==
    The({Listed([i \in 1..Len(collisionTypes) |-> swept.found[i].shapes]) :
         swept \in {SweepTypes(Len(collisionTypes), b1, g, ent, isGroup, ignoredEntities, collisionTypes)}})

\* one pass of the body of the loops of checkSolidEntityCollision:
\* prepareCollision, processCollisionStep, relocateEntity; n counts the passes
OneStep(st, ent, isGroup, ignoredEntities, collisionTypes, dX, dY) ==
    The({The({[b |-> EogRelocateEntity(r.b, ent, isGroup, r.fin[1], r.fin[2], r.cdc),
               g |-> r.g, cdc |-> r.cdc, fin |-> r.fin, n |-> st.n + 1, blocked |-> FALSE,
               path |-> Append(st.path,
                               StepTaken(st, b1, r, ent, isGroup, collisionTypes, dX, dY,
                                         ShapesSwept(b1, st.g, ent, isGroup, ignoredEntities, collisionTypes)))] :
              r \in {processCollisionStep(b1, st.g, ent, isGroup, ignoredEntities, st.cdc,
                                          <<b1[ent].x, b1[ent].y>>, dX, dY, collisionTypes)}}) :
         b1 \in {EogPrepareCollision(st.b, ent, isGroup, st.b[ent].previousX + dX, st.b[ent].previousY + dY)}})

RECURSIVE AllSteps(_, _, _, _, _, _, _, _)
\* the stepping loop without its break: every step is made
AllSteps(st, ent, isGroup, ignoredEntities, collisionTypes, dX, dY, step) ==
    IF step = 0 THEN st
    ELSE IF step = 1 THEN OneStep(st, ent, isGroup, ignoredEntities, collisionTypes, dX, dY)
    ELSE The({AllSteps(half, ent, isGroup, ignoredEntities, collisionTypes, dX, dY, step - (step \div 2)) :
              half \in {AllSteps(st, ent, isGroup, ignoredEntities, collisionTypes, dX, dY, step \div 2)}})

RECURSIVE BulletSteps(_, _, _, _, _, _, _, _)
\* the stepping loop of a bullet; st holds the bodies, the grid, the records,
\* the last resolved position and the number of steps made.  The loop ends
\* early ("blocked") when a step leaves the body where it was.  The steps
\* that remain are made half by half
BulletSteps(st, ent, isGroup, ignoredEntities, collisionTypes, dX, dY, step) ==
    IF step = 0 \/ st.blocked THEN st
    ELSE IF step = 1
    THEN The({[st2 EXCEPT !.blocked = (st2.fin[1] = st.b[ent].previousX /\ st2.fin[2] = st.b[ent].previousY)] :
              st2 \in {OneStep(st, ent, isGroup, ignoredEntities, collisionTypes, dX, dY)}})
    ELSE The({BulletSteps(half, ent, isGroup, ignoredEntities, collisionTypes, dX, dY, step - (step \div 2)) :
              half \in {BulletSteps(st, ent, isGroup, ignoredEntities, collisionTypes, dX, dY, step \div 2)}})

\* position and previous position of every body
Positions(b) == Listed([e \in Ent |-> <<b[e].x, b[e].y, b[e].previousX, b[e].previousY>>])

\* the state a call of checkSolidEntityCollision starts from
StartOf(b, g, ent) ==
    [b |-> b, g |-> g, cdc |-> NoRecords, fin |-> <<b[ent].x, b[ent].y>>, n |-> 0, blocked |-> FALSE,
     path |-> <<>>]

\* if (dX || dY): the stepping loop of a bullet, or the single step
\* the single pass made whether the body moved or not
SteppedAlways(b, g, ent, isGroup) ==
    OneStep(StartOf(b, g, ent), ent, isGroup, IF isGroup THEN solidEntities[ent] ELSE <<>>,
            EogCollisionTypes(ent, isGroup),
            b[ent].x - b[ent].previousX, b[ent].y - b[ent].previousY)

\* if (dX || dY): no pass for a body that stands where it stood; the stepping
\* loop for a bullet, one pass for any other body
SolidSteps(b, g, ent, isGroup) ==
    IF b[ent].x = b[ent].previousX /\ b[ent].y = b[ent].previousY THEN StartOf(b, g, ent)
    ELSE IF Def(ent).bullet
    THEN The({IF step = 0 THEN StartOf(b, g, ent)
              ELSE BulletSteps(StartOf(b, g, ent), ent, isGroup, IF isGroup THEN solidEntities[ent] ELSE <<>>,
                               EogCollisionTypes(ent, isGroup),
                               (b[ent].x - b[ent].previousX) \div step,
                               (b[ent].y - b[ent].previousY) \div step, step) :
              step \in {StepCount(b, ent, isGroup, b[ent].x - b[ent].previousX, b[ent].y - b[ent].previousY)}})
    ELSE OneStep(StartOf(b, g, ent), ent, isGroup, IF isGroup THEN solidEntities[ent] ELSE <<>>,
                 EogCollisionTypes(ent, isGroup),
                 b[ent].x - b[ent].previousX, b[ent].y - b[ent].previousY)

\* if ((finalMovementInfo.x !== pX) || (finalMovementInfo.y !== pY)) updateAgainst(ent),
\* inside "if (dX || dY)"; b is the state the call began in
Reindexed(b, ent, st) ==
    IF /\ (b[ent].x /= b[ent].previousX \/ b[ent].y /= b[ent].previousY)
       /\ (st.fin[1] /= b[ent].previousX \/ st.fin[2] /= b[ent].previousY)
    THEN updateAgainst(st.b, st.g, ent)
    ELSE [b |-> st.b, g |-> st.g]

\* the outcome of a call and a summary of it ("call")
CallSummary(b, ent, isGroup, step, st, u) ==
    [b |-> u.b, g |-> u.g, cdc |-> st.cdc,
     call |-> [ent |-> ent, group |-> isGroup, pX |-> b[ent].previousX, pY |-> b[ent].previousY,
               dX |-> b[ent].x - b[ent].previousX, dY |-> b[ent].y - b[ent].previousY,
               planned |-> IF b[ent].x = b[ent].previousX /\ b[ent].y = b[ent].previousY THEN 0 ELSE step,
               steps |-> st.n, finX |-> st.fin[1], finY |-> st.fin[2],
               xData |-> st.cdc.xData, yData |-> st.cdc.yData, path |-> st.path,
               before |-> Positions(b), after |-> Positions(u.b)]]

\* checkSolidEntityCollision(ent, entityOrGroup): the bodies, the grid and
\* the collision records afterwards, and a summary of the call ("call")
checkSolidEntityCollision(b, g, ent, isGroup) ==
    The({CallSummary(b, ent, isGroup, step, st, Reindexed(b, ent, st)) :
         step \in {IF Def(ent).bullet
                   THEN StepCount(b, ent, isGroup, b[ent].x - b[ent].previousX, b[ent].y - b[ent].previousY)
                   ELSE 1},
         st \in {SolidSteps(b, g, ent, isGroup)}})

\* both events with the direction and the vector of the first
triggerSameDirection(entity, otherEntity, thisType, thatType, x, y, hitType, vector) ==
    <<[target |-> entity, name |-> thatType, entity |-> otherEntity, myType |-> thisType,
       type |-> thatType, x |-> x, y |-> y, direction |-> vector, hitType |-> hitType]>>
    \o (IF otherEntity /= 0
        THEN <<[target |-> otherEntity, name |-> thisType, entity |-> entity, myType |-> thatType,
                type |-> thisType, x |-> x, y |-> y, direction |-> vector, hitType |-> hitType]>>
        ELSE <<>>)

\* triggerCollisionMessages: the events triggered, as <<target, message>>;
\* otherEntity is 0 for a shape without owner
triggerCollisionMessages(entity, otherEntity, thisType, thatType, x, y, hitType, vector) ==
    <<[target |-> entity, name |-> thatType, entity |-> otherEntity, myType |-> thisType,
       type |-> thatType, x |-> x, y |-> y, direction |-> vector, hitType |-> hitType]>>
    \o (IF otherEntity /= 0
        THEN <<[target |-> otherEntity, name |-> thisType, entity |-> entity, myType |-> thatType,
                type |-> thisType, x |-> -x, y |-> -y, direction |-> <<-vector[1], -vector[2]>>,
                hitType |-> hitType]>>
        ELSE <<>>)

\* the two loops that follow checkSolidEntityCollision: the records of the X
\* axis, last first, then those of the Y axis
CollisionMessages(cdc) ==
    Flatten([ii \in 1..Len(cdc.xData) |->
                LET messageData == cdc.xData[Len(cdc.xData) + 1 - ii]
                IN triggerCollisionMessages(messageData.thisShape.owner, messageData.thatShape.owner,
                                            messageData.thisShape.collisionType, messageData.thatShape.collisionType,
                                            messageData.direction, 0, "solid", messageData.vector)])
    \o Flatten([ii \in 1..Len(cdc.yData) |->
                LET messageData == cdc.yData[Len(cdc.yData) + 1 - ii]
                IN triggerCollisionMessages(messageData.thisShape.owner, messageData.thatShape.owner,
                                            messageData.thisShape.collisionType, messageData.thatShape.collisionType,
                                            0, messageData.direction, "solid", messageData.vector)])

---------------------------------------------------------------------------
(* The state of a body and of the handler after construction *)

\* a body placed at (x, y): nothing moved yet, not known to the handler
BodyAt(x, y) ==
    [x |-> x, y |-> y, previousX |-> x, previousY |-> y,
     shapeX |-> x, shapeY |-> y, prevShapeX |-> x, prevShapeY |-> y,
     saveDX |-> 0, saveDY |-> 0, saveOX |-> 0, saveOY |-> 0,
     hasGrid |-> FALSE, againstGrid |-> <<>>, againstAABB |-> EmptyAABB]

NoGrid == [k \in {} |-> [t \in {} |-> <<>>]]

NoOp == [op |-> "none", e |-> 0, threw |-> FALSE, data |-> [t \in {} |-> <<>>], msgs |-> <<>>,
         sweep |-> EmptyAABB, types |-> <<>>, gridBefore |-> NoGrid, prevOp |-> "none", prevE |-> 0]

\* nothing recorded of a frame: the steps run, the positions when the frame
\* began, the calls of checkSolidEntityCollision, the positions now
NoTrace == [phases |-> <<>>, start |-> <<>>, calls |-> <<>>, end |-> <<>>]

\* HandlerCollision.initialize
HandlerInit ==
    /\ againstGrid = NoGrid
    /\ terrain = "null"
    /\ allEntitiesLive = <<>>
    /\ solidEntitiesLive = <<>>
    /\ softEntitiesLive = <<>>
    /\ nonColliders = <<>>
    /\ groupsLive = <<>>
    /\ pc = "idle"
    /\ frame = 0
    /\ log = <<>>
    /\ trace = NoTrace
    /\ lastOp = NoOp
    /\ ops = 0

---------------------------------------------------------------------------
(* SpecGrid: the grid index under the handler's registration events, the   *)
(* relocation of bodies and the two queries.                               *)

\* the definitions and places the bodies of a run are drawn from
GridDefs == {<<"scout", "block", "coin">>, <<"hero", "block", "hero">>, <<"hero", "crate", "ghost">>}

GridPlaces == {<<500, 500>>, <<600, 600>>, <<254, 100>>}

\* where the bodies of a run start
GridStart == <<<<500, 500>>, <<600, 600>>, <<254, 100>>>>

\* the per-frame movements a swept query is made for
GridDeltas == {<<1, 1>>, <<-300, 0>>}

InitGrid ==
    /\ \E names \in GridDefs : defs = Listed([e \in Ent |-> Definition(names[e])])
    /\ entities = [e \in Ent |-> BodyAt(GridStart[e][1], GridStart[e][2])]
    /\ solidEntities = [e \in Ent |-> <<>>]
    /\ HandlerInit
    /\ delayMessage = NoDelayMessage
    /\ delayTrace = NoDelayTrace
    /\ axisCall = NoAxisCall
    /\ NoOthers

Done(op, e, gridBefore) ==
    [NoOp EXCEPT !.op = op, !.e = e, !.gridBefore = gridBefore, !.prevOp = lastOp.op, !.prevE = lastOp.e]

FrameVars == <<allEntitiesLive, solidEntitiesLive, softEntitiesLive, nonColliders, groupsLive, pc, frame, log, trace>>

\* "add-collision-entity" (and "child-entity-added" for an entity without collideOff)
AddCollisionEntity(e) ==
    /\ ops < MaxOps
    /\ \E r \in {addCollisionEntity(entities, againstGrid, e)} :
          /\ entities' = r.b
          /\ againstGrid' = r.g
    /\ lastOp' = Done("add", e, againstGrid)
    /\ ops' = ops + 1
    /\ UNCHANGED <<OtherVars, axisCall, DelayVars, defs, solidEntities, terrain, FrameVars>>

\* "remove-collision-entity" and "child-entity-removed"
RemoveCollisionEntity(e) ==
    /\ ops < MaxOps
    /\ \E r \in {removeCollisionEntity(entities, againstGrid, e)} :
          /\ entities' = r.b
          /\ againstGrid' = r.g
    /\ lastOp' = Done("remove", e, againstGrid)
    /\ ops' = ops + 1
    /\ UNCHANGED <<OtherVars, axisCall, DelayVars, defs, solidEntities, terrain, FrameVars>>

\* "child-entity-updated": removeCollisionEntity, then addCollisionEntity
ChildEntityUpdated(e) ==
    /\ ops < MaxOps
    /\ \E r1 \in {removeCollisionEntity(entities, againstGrid, e)} :
       \E r2 \in {addCollisionEntity(r1.b, r1.g, e)} :
          /\ entities' = r2.b
          /\ againstGrid' = r2.g
    /\ lastOp' = Done("updated", e, againstGrid)
    /\ ops' = ops + 1
    /\ UNCHANGED <<OtherVars, axisCall, DelayVars, defs, solidEntities, terrain, FrameVars>>

\* a call of updateAgainst for a registered body
UpdateAgainst(e) ==
    /\ ops < MaxOps
    /\ entities[e].hasGrid
    /\ \E r \in {updateAgainst(entities, againstGrid, e)} :
          /\ entities' = r.b
          /\ againstGrid' = r.g
    /\ lastOp' = Done("updateAgainst", e, againstGrid)
    /\ ops' = ops + 1
    /\ UNCHANGED <<OtherVars, axisCall, DelayVars, defs, solidEntities, terrain, FrameVars>>

\* "relocate-entity" triggered on a body by the game logic
RelocateEntity(e, p) ==
    /\ ops < MaxOps
    /\ <<entities[e].x, entities[e].y>> /= p
    /\ entities' = Relocated(entities, e, p[1], p[2])
    /\ lastOp' = Done("relocate", e, againstGrid)
    /\ ops' = ops + 1
    /\ UNCHANGED <<OtherVars, axisCall, DelayVars, defs, solidEntities, againstGrid, terrain, FrameVars>>

\* the swept AABB processCollisionStep builds for one collision type of a
\* body whose shapes move by d
SweepOf(b, e, t, d) ==
    LET moved == [b EXCEPT ![e].shapeX = @ + d[1], ![e].shapeY = @ + d[2]]
    IN Include(GetTypeAABB(moved, e, t), GetTypeAABB(b, e, t))

\* getAgainstGrid as processCollisionStep calls it for a registered body
QueryAgainstGrid(e, t, d) ==
    /\ ops < MaxOps
    /\ entities[e].hasGrid
    /\ HasType(e, t)
    /\ Def(e).solid[t] /= <<>>
    /\ \E sweep \in {SweepOf(entities, e, t, d)} :
       \E data \in {getAgainstGrid(entities, againstGrid, e, sweep, Def(e).solid[t])} :
          /\ lastOp' = [Done("getAgainstGrid", e, againstGrid) EXCEPT
                            !.data = Lists(data), !.sweep = sweep, !.types = Def(e).solid[t]]
          /\ againstGrid' = RecycleData(againstGrid, data, Def(e).solid[t])
    /\ ops' = ops + 1
    /\ UNCHANGED <<OtherVars, axisCall, DelayVars, defs, entities, solidEntities, terrain, FrameVars>>

\* getEntityCollisions(entity), for any entity
GetEntityCollisions(e) ==
    /\ ops < MaxOps
    /\ IF SoftCheckThrows(entities, e)
       THEN /\ lastOp' = [Done("getEntityCollisions", e, againstGrid) EXCEPT !.threw = TRUE]
            /\ UNCHANGED againstGrid
       ELSE \E r \in {checkEntityForSoftCollisions(entities, againstGrid, e)} :
               /\ lastOp' = [Done("getEntityCollisions", e, againstGrid) EXCEPT !.msgs = r.msgs]
               /\ againstGrid' = r.g
    /\ ops' = ops + 1
    /\ UNCHANGED <<OtherVars, axisCall, DelayVars, defs, entities, solidEntities, terrain, FrameVars>>

NextGrid ==
    \/ \E e \in Ent : AddCollisionEntity(e)
    \/ \E e \in Ent : RemoveCollisionEntity(e)
    \/ \E e \in Ent : ChildEntityUpdated(e)
    \/ \E e \in Ent : UpdateAgainst(e)
    \/ \E e \in Ent, p \in GridPlaces : RelocateEntity(e, p)
    \/ \E e \in Ent, t \in {"hero", "block"}, d \in GridDeltas : QueryAgainstGrid(e, t, d)
    \/ \E e \in Ent : GetEntityCollisions(e)

SpecGrid == InitGrid /\ [][NextGrid]_vars

---------------------------------------------------------------------------
(* The frame: "check-collision-group".  The handler runs five steps one    *)
(* after the other; pc names the step to run next ("idle" between frames)  *)
(* and nothing else happens while a frame is under way.                    *)

\* the order of the calls in the "check-collision-group" handler
Steps == <<"classify", "groups", "solids", "nons", "softs">>

\* the soft pass run before the individual solid resolution
SoftsFirst == <<"classify", "groups", "softs", "nons", "solids">>

NextStepSoftsFirst(p) ==
    IF IndexOf(SoftsFirst, p) = Len(SoftsFirst) THEN "idle" ELSE SoftsFirst[IndexOf(SoftsFirst, p) + 1]

NextStep(p) == IF IndexOf(Steps, p) = Len(Steps) THEN "idle" ELSE Steps[IndexOf(Steps, p) + 1]

\* resp.entities: every entity of the layer
AllEntities == [i \in Ent |-> i]

\* a body with solid or with soft collisions counted as solid
SolidOrSoft(e) ==
    \E j \in 1..Len(Def(e).collisionTypes) :
        Def(e).solid[Def(e).collisionTypes[j]] /= <<>> \/ Def(e).soft[Def(e).collisionTypes[j]] /= <<>>

HasSolid(e) == \E j \in 1..Len(Def(e).collisionTypes) : Def(e).solid[Def(e).collisionTypes[j]] /= <<>>

HasSoft(e) == \E j \in 1..Len(Def(e).collisionTypes) : Def(e).soft[Def(e).collisionTypes[j]] /= <<>>

IsLiveWithTypes(e) == Def(e).collisionTypes /= <<>>

\* the entities checkCamera lets through
IsLive(e) == ~Def(e).immobile /\ Def(e).collisionTypes /= <<>>

\* a list filled by checkCamera: the entities are walked last first and
\* those of the set "live" are pushed
Pick(all, live) == SelectSeq(Rev(all), LAMBDA e : e \in live)

RECURSIVE SortBySize(_)
\* groups.sort(groupSortBySize): ascending getAllEntities, equal sizes kept in order
SortBySize(list) ==
    IF list = <<>> THEN <<>>
    ELSE LET rest == SortBySize(Tail(list))
             h == Head(list)
             k == Cardinality({i \in 1..Len(rest) : getAllEntities(rest[i]) < getAllEntities(h)})
         IN SubSeq(rest, 1, k) \o <<h>> \o SubSeq(rest, k + 1, Len(rest))

RECURSIVE ResolveUngrouped(_, _, _, _)
\* the loops with the individual pass leaving out the bodies of the groups
\* that the group pass resolves
ResolveUngrouped(i, list, isGroup, st) ==
    IF i = 0 THEN st
    ELSE IF isGroup /\ ~(getSize(list[i]) > 1) THEN ResolveUngrouped(i - 1, list, isGroup, st)
    ELSE IF ~isGroup /\ (\E o \in Ent : IsLive(o) /\ Def(o).group /\ getSize(o) > 1
                                          /\ list[i] \in {o} \cup Range(solidEntities[o]))
    THEN ResolveUngrouped(i - 1, list, isGroup, st)
    ELSE The({ResolveUngrouped(i - 1, list, isGroup,
                               [b |-> r.b, g |-> r.g, log |-> st.log \o CollisionMessages(r.cdc),
                                calls |-> Append(st.calls, r.call)]) :
              r \in {checkSolidEntityCollision(st.b, st.g, list[i], isGroup)}})

RECURSIVE ResolveAll(_, _, _, _)
\* the loop of checkGroupCollisions (isGroup) and of checkSolidCollisions
\* over its list, last first; st holds the bodies, the grid, the events and
\* the calls made so far
ResolveAll(i, list, isGroup, st) ==
    IF i = 0 THEN st
    ELSE IF isGroup /\ ~(getSize(list[i]) > 1) THEN ResolveAll(i - 1, list, isGroup, st)
    ELSE The({ResolveAll(i - 1, list, isGroup,
                         [b |-> r.b, g |-> r.g, log |-> st.log \o CollisionMessages(r.cdc),
                          calls |-> Append(st.calls, r.call)]) :
              r \in {checkSolidEntityCollision(st.b, st.g, list[i], isGroup)}})

RECURSIVE RelocateEvery(_, _, _)
\* the loop without the test of the position: every non-collider is told
RelocateEvery(i, nons, st) ==
    IF i = 0 THEN st
    ELSE The({RelocateEvery(i - 1, nons,
                            [b |-> u.b, g |-> u.g,
                             log |-> Append(st.log, [target |-> nons[i], name |-> "relocate-entity",
                                                     x |-> st.b[nons[i]].x, y |-> st.b[nons[i]].y,
                                                     hitType |-> "none"])]) :
              u \in {updateAgainst(Relocated(st.b, nons[i], st.b[nons[i]].x, st.b[nons[i]].y), st.g, nons[i])}})

RECURSIVE RelocateAll(_, _, _)
\* the loop of resolveNonCollisions, last first
RelocateAll(i, nons, st) ==
    IF i = 0 THEN st
    ELSE LET e == nons[i]
             b == st.b
         IN IF b[e].x /= b[e].previousX \/ b[e].y /= b[e].previousY
            THEN The({RelocateAll(i - 1, nons,
                                  [b |-> u.b, g |-> u.g,
                                   log |-> Append(st.log, [target |-> e, name |-> "relocate-entity",
                                                           x |-> b[e].x, y |-> b[e].y, hitType |-> "none"])]) :
                      u \in {updateAgainst(Relocated(b, e, b[e].x, b[e].y), st.g, e)}})
            ELSE RelocateAll(i - 1, nons, st)

\* the events the callback of checkSoftCollisions triggers on the entity
SoftEvents(e, msgs) ==
    Listed([i \in 1..Len(msgs) |->
        [target |-> e, name |-> msgs[i].type, entity |-> msgs[i].entity, myType |-> msgs[i].myType,
         type |-> msgs[i].type, x |-> msgs[i].x, y |-> msgs[i].y, hitType |-> msgs[i].hitType,
         shape |-> msgs[i].shape]])

RECURSIVE SoftAll(_, _, _)
\* the loop of checkSoftCollisions, last first; an entity the handler does
\* not hold ends the loop with an exception
SoftAll(i, softs, st) ==
    IF i = 0 THEN st
    ELSE IF SoftCheckThrows(st.b, softs[i]) THEN [st EXCEPT !.threw = TRUE]
    ELSE The({SoftAll(i - 1, softs, [st EXCEPT !.g = r.g, !.log = st.log \o SoftEvents(softs[i], r.msgs)]) :
              r \in {checkEntityForSoftCollisions(st.b, st.g, softs[i])}})

Ran(step, b) == [trace EXCEPT !.phases = Append(@, step), !.end = Positions(b)]

\* checkCamera(resp.camera, resp.entities)
CheckCamera ==
    /\ pc = "idle"
    /\ frame < MaxFrames
    /\ allEntitiesLive' = Pick(AllEntities, {e \in Ent : IsLive(e)})
    /\ solidEntitiesLive' = Pick(AllEntities, {e \in Ent : IsLive(e) /\ HasSolid(e)})
    /\ softEntitiesLive' = Pick(AllEntities, {e \in Ent : IsLive(e) /\ HasSoft(e)})
    /\ nonColliders' = Pick(AllEntities, {e \in Ent : IsLive(e) /\ ~HasSolid(e)})
    /\ groupsLive' = SortBySize(Pick(AllEntities, {e \in Ent : IsLive(e) /\ Def(e).group}))
    /\ pc' = NextStep("classify")
    /\ frame' = frame + 1
    /\ log' = <<>>
    /\ trace' = [phases |-> <<"classify">>, start |-> Positions(entities), calls |-> <<>>,
                 end |-> Positions(entities)]
    /\ UNCHANGED <<OtherVars, axisCall, DelayVars, defs, entities, solidEntities, againstGrid, terrain, lastOp, ops>>

CheckGroupCollisions ==
    /\ pc = "groups"
    /\ \E r \in {ResolveAll(Len(groupsLive), groupsLive, TRUE,
                           [b |-> entities, g |-> againstGrid, log |-> log, calls |-> trace.calls])} :
          /\ entities' = r.b
          /\ againstGrid' = r.g
          /\ log' = r.log
          /\ trace' = [Ran("groups", r.b) EXCEPT !.calls = r.calls]
    /\ pc' = NextStep("groups")
    /\ UNCHANGED <<OtherVars, axisCall, DelayVars, defs, solidEntities, terrain, allEntitiesLive, solidEntitiesLive, softEntitiesLive,
                   nonColliders, groupsLive, frame, lastOp, ops>>

CheckSolidCollisions ==
    /\ pc = "solids"
    /\ \E r \in {ResolveAll(Len(solidEntitiesLive), solidEntitiesLive, FALSE,
                           [b |-> entities, g |-> againstGrid, log |-> log, calls |-> trace.calls])} :
          /\ entities' = r.b
          /\ againstGrid' = r.g
          /\ log' = r.log
          /\ trace' = [Ran("solids", r.b) EXCEPT !.calls = r.calls]
    /\ pc' = NextStep("solids")
    /\ UNCHANGED <<OtherVars, axisCall, DelayVars, defs, solidEntities, terrain, allEntitiesLive, solidEntitiesLive, softEntitiesLive,
                   nonColliders, groupsLive, frame, lastOp, ops>>

ResolveNonCollisions ==
    /\ pc = "nons"
    /\ \E r \in {RelocateAll(Len(nonColliders), nonColliders, [b |-> entities, g |-> againstGrid, log |-> log])} :
          /\ entities' = r.b
          /\ againstGrid' = r.g
          /\ log' = r.log
          /\ trace' = Ran("nons", r.b)
    /\ pc' = NextStep("nons")
    /\ UNCHANGED <<OtherVars, axisCall, DelayVars, defs, solidEntities, terrain, allEntitiesLive, solidEntitiesLive, softEntitiesLive,
                   nonColliders, groupsLive, frame, lastOp, ops>>

CheckSoftCollisions ==
    /\ pc = "softs"
    /\ \E r \in {SoftAll(Len(softEntitiesLive), softEntitiesLive,
                        [b |-> entities, g |-> againstGrid, log |-> log, threw |-> FALSE])} :
          /\ againstGrid' = r.g
          /\ log' = r.log
          /\ lastOp' = [Done("checkSoftCollisions", 0, againstGrid) EXCEPT !.threw = r.threw]
    /\ trace' = Ran("softs", entities)
    /\ pc' = NextStep("softs")
    /\ UNCHANGED <<OtherVars, axisCall, DelayVars, defs, entities, solidEntities, terrain, allEntitiesLive, solidEntitiesLive,
                   softEntitiesLive, nonColliders, groupsLive, frame, ops>>

---------------------------------------------------------------------------
(* SpecFrame: bodies moved by the game logic between frames, the frame,    *)
(* and the on-demand query.                                                *)

\* the movements the game logic makes
FrameDeltas == {<<20, 0>>, <<5, 0>>, <<400, 0>>, <<-20, 0>>, <<0, 6>>}

\* the scenes of a run: the definitions, the places, and the entities added
\* to the collision group of entity 1, in order
FrameScenes ==
    {[defs |-> <<"hero", "block", "coin">>, at |-> <<<<0, 0>>, <<15, 0>>, <<8, 0>>>>, members |-> <<>>, inner |-> <<>>],
     [defs |-> <<"shot", "wall", "block">>, at |-> <<<<0, 0>>, <<6, 0>>, <<30, 0>>>>, members |-> <<>>, inner |-> <<>>],
     [defs |-> <<"raft", "hero", "crate">>, at |-> <<<<0, 0>>, <<0, -10>>, <<12, -10>>>>, members |-> <<1, 2, 3>>, inner |-> <<>>],
     [defs |-> <<"raft", "rider", "crate">>, at |-> <<<<0, 0>>, <<0, -10>>, <<12, -10>>>>, members |-> <<1, 2, 3>>, inner |-> <<>>],
     [defs |-> <<"rider", "coin", "ghost">>, at |-> <<<<0, 0>>, <<8, 0>>, <<30, 0>>>>, members |-> <<>>, inner |-> <<>>],
     [defs |-> <<"raft", "anchor", "crate">>, at |-> <<<<0, 0>>, <<0, -10>>, <<12, -10>>>>, members |-> <<1, 2, 3>>, inner |-> <<>>],
     [defs |-> <<"raft", "barge", "crate">>, at |-> <<<<0, 0>>, <<0, -10>>, <<12, -10>>>>, members |-> <<1, 2>>, inner |-> <<2, 3>>]}

RECURSIVE AddAll(_, _)
\* "add-collision-entity" for every entity of the list, in order
AddAll(st, list) ==
    IF list = <<>> THEN st ELSE AddAll(addCollisionEntity(st.b, st.g, Head(list)), Tail(list))

RECURSIVE GroupAddAll(_, _)
GroupAddAll(list, members) ==
    IF members = <<>> THEN list ELSE GroupAddAll(groupAddCollisionEntity(list, Head(members)), Tail(members))

\* the bodies of a scene, none of them known to the handler yet
SceneBodies(scene) == Listed([e \in Ent |-> BodyAt(scene.at[e][1], scene.at[e][2])])

\* a scene after construction: the entities exist, the handler knows none,
\* the collision group of entity 1 holds its members
InitScene(scene) ==
    /\ defs = Listed([e \in Ent |-> Definition(scene.defs[e])])
    /\ entities = SceneBodies(scene)
    /\ againstGrid = NoGrid
    /\ solidEntities = Listed([e \in Ent |-> IF e = 1 THEN GroupAddAll(<<>>, scene.members)
                                           ELSE IF e = 2 THEN GroupAddAll(<<>>, scene.inner)
                                           ELSE <<>>])
    /\ terrain = "null"
    /\ allEntitiesLive = <<>>
    /\ solidEntitiesLive = <<>>
    /\ softEntitiesLive = <<>>
    /\ nonColliders = <<>>
    /\ groupsLive = <<>>
    /\ pc = "new"
    /\ frame = 0
    /\ log = <<>>
    /\ trace = NoTrace
    /\ lastOp = NoOp
    /\ ops = 0
    /\ delayMessage = NoDelayMessage
    /\ delayTrace = NoDelayTrace
    /\ axisCall = NoAxisCall
    /\ NoOthers

InitFrame == \E scene \in FrameScenes : InitScene(scene)

\* the layer hands its entities to the handler: "child-entity-added" for
\* each of them, in order
ChildEntitiesAdded ==
    /\ pc = "new"
    /\ \E st \in {AddAll([b |-> entities, g |-> againstGrid], AllEntities)} :
          /\ entities' = st.b
          /\ againstGrid' = st.g
    /\ pc' = "idle"
    /\ lastOp' = Done("add", 0, againstGrid)
    /\ UNCHANGED <<OtherVars, axisCall, DelayVars, defs, solidEntities, terrain, allEntitiesLive, solidEntitiesLive, softEntitiesLive,
                   nonColliders, groupsLive, frame, log, trace, ops>>

\* the step delta of a bullet is the whole delta divided by the number of
\* steps; the logic makes the movements for which that is a whole number
WholeSteps(b, e) ==
    Def(e).bullet =>
        \A step \in {StepCount(b, e, FALSE, b[e].x - b[e].previousX, b[e].y - b[e].previousY)} :
            step > 0 => /\ (b[e].x - b[e].previousX) % step = 0
                        /\ (b[e].y - b[e].previousY) % step = 0

\* the game logic moves a body between two frames
Move(e, d) ==
    /\ pc = "idle"
    /\ frame < MaxFrames
    /\ ops < MaxMoves
    /\ ~Def(e).immobile
    /\ LET b == [entities EXCEPT ![e].x = @ + d[1], ![e].y = @ + d[2]]
       IN /\ WholeSteps(b, e)
          /\ entities' = b
    /\ lastOp' = Done("move", e, againstGrid)
    /\ ops' = ops + 1
    /\ UNCHANGED <<OtherVars, axisCall, DelayVars, defs, solidEntities, againstGrid, terrain, FrameVars>>

\* getEntityCollisions(entity) between two frames
AskEntityCollisions(e) ==
    /\ pc = "idle"
    /\ GetEntityCollisions(e)

NextFrame ==
    \/ ChildEntitiesAdded
    \/ \E e \in Ent, d \in FrameDeltas : Move(e, d)
    \/ \E e \in Ent : AskEntityCollisions(e)
    \/ CheckCamera
    \/ CheckGroupCollisions
    \/ CheckSolidCollisions
    \/ ResolveNonCollisions
    \/ CheckSoftCollisions

SpecFrame == InitFrame /\ [][NextFrame]_vars

---------------------------------------------------------------------------
(* Frames of a world that has a tile layer: the layer is handed to the     *)
(* handler by "add-collision-entity" or "child-entity-added", or never.    *)

TerrainScenes ==
    {[defs |-> <<"hero", "coin", "ghost">>, at |-> <<<<0, 0>>, <<8, 0>>, <<30, 0>>>>, members |-> <<>>, inner |-> <<>>],
     [defs |-> <<"hero", "block", "coin">>, at |-> <<<<0, 0>>, <<15, 0>>, <<8, 0>>>>, members |-> <<>>, inner |-> <<>>],
     [defs |-> <<"raft", "hero", "coin">>, at |-> <<<<0, 0>>, <<0, -10>>, <<8, 0>>>>, members |-> <<1, 2>>, inner |-> <<>>],
     [defs |-> <<"crate", "coin", "ghost">>, at |-> <<<<0, 0>>, <<8, 0>>, <<30, 0>>>>, members |-> <<>>, inner |-> <<>>],
     [defs |-> <<"raft", "crate", "coin">>, at |-> <<<<0, 0>>, <<0, -10>>, <<8, 0>>>>, members |-> <<1, 2>>, inner |-> <<>>]}

InitTerrain == \E scene \in TerrainScenes : InitScene(scene)

\* addCollisionEntity(entity) for an entity that has getTileShapes
AddCollisionTerrain(layer) ==
    /\ pc = "idle"
    /\ terrain' = layer.name
    /\ UNCHANGED <<OtherVars, axisCall, DelayVars, defs, entities, solidEntities, againstGrid, FrameVars, lastOp, ops>>

NextTerrain ==
    \/ NextFrame
    \/ \E layer \in TileLayers : AddCollisionTerrain(layer)

SpecTerrain == InitTerrain /\ [][NextTerrain]_vars

---------------------------------------------------------------------------
(* LogicDelayMessage.  Input events put messages on a queue, "handle-logic" *)
(* counts their delays down and triggers the messages on the owner.  The   *)
(* owner's trigger (Messenger, not part of these sources) calls the        *)
(* listeners of an event at once and in the order they were added, the     *)
(* listeners of this component included.                                   *)

\* the number of events and ticks of a run
MaxDelayOps == 5

\* one entry of definition.events
EventDefinition(input, event, message, delay, singleInstance, repeat, cancelEvent) ==
    [input |-> input, event |-> event, message |-> message, delay |-> delay,
     singleInstance |-> singleInstance, repeat |-> repeat, cancelEvent |-> cancelEvent]

\* the component definitions of the runs: definition.events in key order;
\* "none" stands for a missing message or cancelEvent
DelayDefinitions ==
    {<<EventDefinition("a", "x", "none", 2, FALSE, FALSE, "c"),
       EventDefinition("b", "y", "m", 3, TRUE, FALSE, "none")>>,
     <<EventDefinition("a", "x", "none", 3, TRUE, FALSE, "y"),
       EventDefinition("b", "y", "none", 1, FALSE, FALSE, "none")>>,
     <<EventDefinition("a", "x", "none", 3, TRUE, FALSE, "none"),
       EventDefinition("b", "y", "none", 1, FALSE, FALSE, "y")>>,
     <<EventDefinition("a", "x", "none", 2, FALSE, TRUE, "c"),
       EventDefinition("b", "a", "none", 1, FALSE, FALSE, "none")>>,
     <<EventDefinition("a", "x", "none", 3, TRUE, FALSE, "none"),
       EventDefinition("b", "x", "none", 2, FALSE, FALSE, "none")>>}

\* the events triggered on the owner from outside, their messages, and the
\* deltas of the ticks
OwnerEvents == {"a", "b", "c"}

OwnerMessages == {"none", "p"}

TickDeltas == {1, 2}

\* a number of queueTimes; undefined - delta is NaN, and NaN stays NaN
NaN == [nan |-> TRUE, v |-> 0]

Num(v) == [nan |-> FALSE, v |-> v]

\* queueTimes[i]; beyond the end it is undefined, which counts as NaN
TimeAt(times, i) == IF i \in 1..Len(times) THEN times[i] ELSE NaN

\* queueTimes[i] = t: the array grows to hold index i
SetTime(times, i, t) == Listed([j \in 1..Max(Len(times), i) |-> IF j = i THEN t ELSE TimeAt(times, j)])

Plus(t, d) == IF t.nan THEN NaN ELSE Num(t.v + d)

\* greenSplice(i) of an array that may be shorter than i
SpliceAt(s, i) == IF i \in 1..Len(s) THEN GreenSplice(s, i) ELSE s

\* includeMessage(event, message): the definition object itself
\* ("definition" is its index), or a new object ("definition" 0) when the
\* input event carries a message and the definition has none; "from",
\* "ticket" and "at" record the definition, the number and the clock of
\* the entry for the properties
includeMessage(k, event, message, ticket, clock) ==
    IF message /= "none" /\ event.message = "none"
    THEN [definition |-> 0, event |-> event.event, message |-> message, delay |-> event.delay,
          repeat |-> event.repeat, from |-> k, ticket |-> ticket, at |-> clock]
    ELSE [definition |-> k, event |-> event.event, message |-> event.message, delay |-> event.delay,
          repeat |-> event.repeat, from |-> k, ticket |-> ticket, at |-> clock]

\* this.queue.push(includeMessage(event, message)); this.queueTimes.push(event.delay)
Pushed(st, k, event, message) ==
    [st EXCEPT !.queue = Append(@, includeMessage(k, event, message, st.made + 1, st.clock)),
               !.queueTimes = Append(@, Num(event.delay)),
               !.made = @ + 1,
               !.tickets = Append(@, [from |-> k, at |-> st.clock, delay |-> event.delay, repeat |-> event.repeat,
                                      event |-> event.event, payload |-> message /= "none"])]

\* the listener createMessage(event) returns
createMessage(st, k, event, message) ==
    IF event.singleInstance /\ \E i \in 1..Len(st.queue) : st.queue[i].event = event.event
    THEN st
    ELSE Pushed(st, k, event, message)

RECURSIVE Cancelled(_, _, _)
\* the loop of the listener createCancellation(cancelEvent) returns, from
\* i down to the first entry
Cancelled(st, k, i) ==
    IF i = 0 THEN st
    ELSE IF st.queue[i].definition = k
    THEN Cancelled([st EXCEPT !.queueTimes = SpliceAt(@, i), !.queue = SpliceAt(@, i),
                              !.cancelled = @ \cup {st.queue[i].ticket}], k, i - 1)
    ELSE Cancelled(st, k, i - 1)

createCancellation(st, k) == Cancelled(st, k, Len(st.queue))

\* the listeners the constructor adds for definition k, called for an event
ListenersOf(st, k, event, name, message) ==
    The({IF event.cancelEvent = name THEN createCancellation(heard, k) ELSE heard :
         heard \in {IF event.input = name THEN createMessage(st, k, event, message) ELSE st}})

RECURSIVE Triggered(_, _, _, _)
\* owner.trigger(name, message) as far as this component hears it: the
\* listeners of definitions k and after
Triggered(st, k, name, message) ==
    IF k > Len(st.events) THEN st
    ELSE Triggered(ListenersOf(st, k, st.events[k], name, message), k + 1, name, message)

trigger(st, name, message) == Triggered(st, 1, name, message)

\* the record of a message triggered by "handle-logic"
Sent(st, entry, delta) ==
    [name |-> entry.event, message |-> entry.message,
     ticket |-> entry.ticket, from |-> entry.from, at |-> entry.at, delay |-> entry.delay,
     repeat |-> entry.repeat, clock |-> st.clock, delta |-> delta]

\* "if (this.queue[i])": the entry now at i repeats or is spliced
Settled(st, i) ==
    IF i > Len(st.queue) THEN st
    ELSE IF st.queue[i].repeat
    THEN [st EXCEPT !.queueTimes = SetTime(@, i, Plus(TimeAt(@, i), st.queue[i].delay))]
    ELSE [st EXCEPT !.queueTimes = SpliceAt(@, i), !.queue = SpliceAt(@, i)]

\* the body of "if (this.queueTimes[i] <= 0)": reading this.queue[i].event
\* of a missing entry throws
Fired(st, i, delta) ==
    IF i > Len(st.queue) THEN [st EXCEPT !.threw = TRUE]
    ELSE Settled(trigger([st EXCEPT !.sent = Append(@, Sent(st, st.queue[i], delta))],
                         st.queue[i].event, st.queue[i].message), i)

\* this.queueTimes[i] -= resp.delta
CountedDown(st, i, delta) == [st EXCEPT !.queueTimes = SetTime(@, i, Plus(TimeAt(@, i), -delta))]

RECURSIVE Ticked(_, _, _)
\* the loop of "handle-logic", from i down to the first entry
Ticked(st, i, delta) ==
    IF i = 0 \/ st.threw THEN st
    ELSE The({IF ~down.queueTimes[i].nan /\ down.queueTimes[i].v <= 0
              THEN Ticked(Fired(down, i, delta), i - 1, delta)
              ELSE Ticked(down, i - 1, delta) :
              down \in {CountedDown(st, i, delta)}})

\* the component and what the properties record of it, as one state
DelayState(component, recorded) ==
    [events |-> component.events, queue |-> component.queue, queueTimes |-> component.queueTimes,
     clock |-> recorded.clock, made |-> recorded.made, tickets |-> recorded.tickets,
     cancelled |-> recorded.cancelled, sent |-> <<>>, threw |-> FALSE]

ComponentOf(st) == [events |-> st.events, queue |-> st.queue, queueTimes |-> st.queueTimes]

\* the entries enqueued before an event that are in the queue after it,
\* the event being the cancelEvent of their definition
Outlived(st, name) ==
    {st.queue[i].ticket : i \in {j \in 1..Len(st.queue) :
        /\ st.queue[j].ticket <= delayTrace.made
        /\ st.events[st.queue[j].from].cancelEvent = name}}

RecordedOf(st, op, name, message, delta) ==
    [clock |-> st.clock, made |-> st.made, tickets |-> st.tickets, cancelled |-> st.cancelled,
     threw |-> st.threw, op |-> op, name |-> name, message |-> message, delta |-> delta,
     before |-> delayMessage.queue,
     outlived |-> delayTrace.outlived \cup (IF op = "trigger" THEN Outlived(st, name) ELSE {})]

\* the constructor: empty queues, the listeners of definition.events
InitDelay ==
    /\ \E definition \in DelayDefinitions :
          delayMessage = [events |-> definition, queue |-> <<>>, queueTimes |-> <<>>]
    /\ delayTrace = NoDelayTrace
    /\ defs = <<>>
    /\ entities = <<>>
    /\ solidEntities = <<>>
    /\ HandlerInit
    /\ axisCall = NoAxisCall
    /\ NoOthers

CollisionVars ==
    <<OtherVars, axisCall, defs, entities, solidEntities, againstGrid, terrain, allEntitiesLive, solidEntitiesLive,
      softEntitiesLive, nonColliders, groupsLive, pc, trace, lastOp>>

\* owner.trigger(name, message) by another component or entity
TriggerEvent(name, message) ==
    /\ ops < MaxDelayOps
    /\ \E st \in {trigger(DelayState(delayMessage, delayTrace), name, message)} :
          /\ delayMessage' = ComponentOf(st)
          /\ delayTrace' = RecordedOf(st, "trigger", name, message, 0)
    /\ ops' = ops + 1
    /\ UNCHANGED <<CollisionVars, frame, log>>

\* "handle-logic" with resp.delta = delta
HandleLogic(delta) ==
    /\ ops < MaxDelayOps
    /\ \E st \in {Ticked([DelayState(delayMessage, delayTrace) EXCEPT !.clock = @ + delta],
                         Len(delayMessage.queue), delta)} :
          /\ delayMessage' = ComponentOf(st)
          /\ delayTrace' = RecordedOf(st, "handle-logic", "", "none", delta)
          /\ log' = log \o st.sent
    /\ frame' = frame + 1
    /\ ops' = ops + 1
    /\ UNCHANGED CollisionVars

NextDelay ==
    \/ \E name \in OwnerEvents, message \in OwnerMessages : TriggerEvent(name, message)
    \/ \E delta \in TickDeltas : HandleLogic(delta)

SpecDelay == InitDelay /\ [][NextDelay]_vars

---------------------------------------------------------------------------
(* SpecAxis: findMinShapeMovementCollision called with a shape at its      *)
(* previous place, the shape at its goal, an axis and a list of potential  *)
(* colliding shapes.                                                       *)

\* the longest list of potential colliding shapes of a call
MaxShapes == 2

\* the moving shape, a rectangle 10 wide and high, placed at (x, y)
MovingShape(x, y) ==
    [type |-> "rectangle", owner |-> 1, collisionType |-> "hero", x |-> x, y |-> y, hw |-> 5, hh |-> 5]

\* where the moving shape can be asked to go from (0, 0)
AxisGoals == {<<20, 0>>, <<-20, 0>>, <<8, 0>>, <<0, 20>>, <<0, -4>>, <<20, 20>>, <<0, 0>>}

\* a shape of another body
OtherShape(owner, x, y, hw, hh) ==
    [type |-> "rectangle", owner |-> owner, collisionType |-> "block", x |-> x, y |-> y, hw |-> hw, hh |-> hh]

\* the shapes the lists are made of: ahead of the moving shape, overlapping
\* its previous place, behind it, and off its way
OtherShapes ==
    {OtherShape(2, 15, 0, 5, 5), OtherShape(3, 22, 0, 1, 5), OtherShape(2, 3, 2, 5, 5),
     OtherShape(3, -14, 0, 5, 5), OtherShape(2, 0, 13, 5, 5), OtherShape(3, -2, -3, 1, 1),
     OtherShape(2, 40, 40, 5, 5)}

ShapeLists == UNION {[1..n -> OtherShapes] : n \in 0..MaxShapes}

\* the arguments of a call that has not been made yet
AxisArguments(goal, axis, pcs) ==
    [made |-> FALSE, prevShape |-> MovingShape(0, 0), currentShape |-> MovingShape(goal[1], goal[2]),
     axis |-> axis, pcs |-> pcs, cd |-> NoCollision]

InitAxis ==
    /\ \E goal \in AxisGoals, axis \in {"x", "y"}, pcs \in ShapeLists :
          axisCall = AxisArguments(goal, axis, pcs)
    /\ delayMessage = NoDelayMessage
    /\ delayTrace = NoDelayTrace
    /\ defs = <<>>
    /\ entities = <<>>
    /\ solidEntities = <<>>
    /\ HandlerInit
    /\ NoOthers

\* findMinShapeMovementCollision(prevShape, currentShape, axis, potentialCollidingShapes)
FindMinShapeMovementCollision ==
    /\ ~axisCall.made
    /\ axisCall' = [axisCall EXCEPT !.made = TRUE,
                                    !.cd = findMinShapeMovementCollision(axisCall.prevShape, axisCall.currentShape,
                                                                         axisCall.axis, axisCall.pcs)]
    /\ UNCHANGED <<OtherVars, DelayVars, defs, entities, solidEntities, againstGrid, terrain, FrameVars, lastOp, ops>>

NextAxis == FindMinShapeMovementCollision

SpecAxis == InitAxis /\ [][NextAxis]_vars

---------------------------------------------------------------------------
(* Frames of worlds in which a body meets several bodies, or meets one     *)
(* with several shapes, and frames of bullets of several sizes.            *)

\* the movements the game logic makes in these worlds
ContactDeltas == {<<20, 0>>, <<-20, 0>>, <<0, 6>>, <<8, 8>>, <<100, 0>>, <<400, 0>>, <<-400, 0>>}

ContactScenes ==
    {[defs |-> <<"rider", "block", "coin">>, at |-> <<<<0, 0>>, <<15, 0>>, <<8, 0>>>>, members |-> <<>>, inner |-> <<>>],
     [defs |-> <<"strider", "block", "block">>, at |-> <<<<0, 0>>, <<15, 0>>, <<0, 13>>>>, members |-> <<>>, inner |-> <<>>],
     [defs |-> <<"raft", "hero", "block">>, at |-> <<<<0, 0>>, <<3, -10>>, <<15, -5>>>>, members |-> <<1, 2>>, inner |-> <<>>],
     [defs |-> <<"hero", "block", "block">>, at |-> <<<<0, 0>>, <<15, 0>>, <<20, 14>>>>, members |-> <<>>, inner |-> <<>>],
     [defs |-> <<"hero", "block", "block">>, at |-> <<<<0, 0>>, <<15, 0>>, <<10, 14>>>>, members |-> <<>>, inner |-> <<>>],
     [defs |-> <<"shot", "wall", "block">>, at |-> <<<<0, 0>>, <<2, 0>>, <<30, 0>>>>, members |-> <<>>, inner |-> <<>>],
     [defs |-> <<"tracer", "wall", "wall">>, at |-> <<<<0, 0>>, <<2, 0>>, <<3, 11>>>>, members |-> <<>>, inner |-> <<>>],
     [defs |-> <<"shell", "wall", "block">>, at |-> <<<<0, 0>>, <<7, 0>>, <<30, 0>>>>, members |-> <<>>, inner |-> <<>>],
     [defs |-> <<"fork", "wall", "block">>, at |-> <<<<0, 0>>, <<15, 0>>, <<60, 0>>>>, members |-> <<>>, inner |-> <<>>],
     [defs |-> <<"dot", "wall", "block">>, at |-> <<<<0, 0>>, <<6, 0>>, <<30, 0>>>>, members |-> <<>>, inner |-> <<>>]}

InitContact == \E scene \in ContactScenes : InitScene(scene)

NextContact ==
    \/ ChildEntitiesAdded
    \/ \E e \in Ent, d \in ContactDeltas : Move(e, d)
    \/ CheckCamera
    \/ CheckGroupCollisions
    \/ CheckSolidCollisions
    \/ ResolveNonCollisions
    \/ CheckSoftCollisions

SpecContact == InitContact /\ [][NextContact]_vars

---------------------------------------------------------------------------
(* Collision groups that are built and taken apart by "add-collision-      *)
(* entity" and "remove-collision-entity" events before the layer hands its *)
(* entities to the handler; frames follow as before.                       *)

\* the most entries the member lists of a scene hold together
MaxListed == 4

RECURSIVE ListedTogether(_)
ListedTogether(lists) == IF lists = <<>> THEN 0 ELSE Len(Head(lists)) + ListedTogether(Tail(lists))

GroupDeltas == {<<20, 0>>, <<0, 6>>}

GroupScenes ==
    {[defs |-> <<"raft", "rider", "crate">>, at |-> <<<<0, 0>>, <<0, -10>>, <<12, -10>>>>],
     [defs |-> <<"raft", "barge", "crate">>, at |-> <<<<0, 0>>, <<0, -10>>, <<12, -10>>>>],
     [defs |-> <<"raft", "picker", "coin">>, at |-> <<<<0, 0>>, <<0, -10>>, <<12, -10>>>>]}

\* a scene after construction: every collision group is empty
InitGroup ==
    \E scene \in GroupScenes :
        InitScene([defs |-> scene.defs, at |-> scene.at, members |-> <<>>, inner |-> <<>>])

\* "add-collision-entity" (or "child-entity-added") with entity e on the
\* collision-group component of o; a group is not put into a group it holds
GroupAddCollisionEntity(o, e) ==
    /\ pc = "new"
    /\ Def(o).group
    /\ (e /= o /\ Def(e).group) => o < e
    /\ ListedTogether(solidEntities) + SolidTypeCount(e) <= MaxListed
    /\ solidEntities' = [solidEntities EXCEPT ![o] = groupAddCollisionEntity(@, e)]
    /\ lastOp' = [NoOp EXCEPT !.op = "add-collision-entity", !.e = e]
    /\ UNCHANGED <<OtherVars, axisCall, DelayVars, defs, entities, againstGrid, terrain, FrameVars, ops>>

\* "remove-collision-entity" (or "child-entity-removed") with entity e
GroupRemoveCollisionEntity(o, e) ==
    /\ pc = "new"
    /\ Def(o).group
    /\ solidEntities' = [solidEntities EXCEPT ![o] = groupRemoveCollisionEntity(@, e)]
    /\ lastOp' = [NoOp EXCEPT !.op = "remove-collision-entity", !.e = e]
    /\ UNCHANGED <<OtherVars, axisCall, DelayVars, defs, entities, againstGrid, terrain, FrameVars, ops>>

NextGroup ==
    \/ \E o \in Ent, e \in Ent : GroupAddCollisionEntity(o, e)
    \/ \E o \in Ent, e \in Ent : GroupRemoveCollisionEntity(o, e)
    \/ ChildEntitiesAdded
    \/ \E e \in Ent, d \in GroupDeltas : Move(e, d)
    \/ CheckCamera
    \/ CheckGroupCollisions
    \/ CheckSolidCollisions
    \/ ResolveNonCollisions
    \/ CheckSoftCollisions

SpecGroup == InitGroup /\ [][NextGroup]_vars

---------------------------------------------------------------------------
(* The key of a cell on its own: two cells are drawn and the key of each   *)
(* is computed as getAgainstGrid and updateAgainst compute it.             *)

\* cell coordinates at and beyond the ends of the 16-bit range
CellCoordinates == {0, 1, 255, 65535, 65536, -1}

InitKey ==
    /\ \E x1 \in CellCoordinates, y1 \in CellCoordinates, x2 \in CellCoordinates, y2 \in CellCoordinates :
          cellCall = [made |-> FALSE, first |-> <<x1, y1>>, second |-> <<x2, y2>>]
    /\ newEntity = NoEntity
    /\ audioVO = NoAudioVO
    /\ axisCall = NoAxisCall
    /\ delayMessage = NoDelayMessage
    /\ delayTrace = NoDelayTrace
    /\ defs = <<>>
    /\ entities = <<>>
    /\ solidEntities = <<>>
    /\ HandlerInit

\* id = ((y << 16) ^ x) >>> 0 for both cells
ComputeKeys ==
    /\ ~cellCall.made
    /\ cellCall' = [made |-> TRUE, first |-> cellCall.first, second |-> cellCall.second,
                    firstKey |-> CellKey(cellCall.first[1], cellCall.first[2]),
                    secondKey |-> CellKey(cellCall.second[1], cellCall.second[2])]
    /\ UNCHANGED <<newEntity, audioVO, axisCall, DelayVars, defs, entities, solidEntities, againstGrid, terrain,
                   FrameVars, lastOp, ops>>

NextKey == ComputeKeys

SpecKey == InitKey /\ [][NextKey]_vars

---------------------------------------------------------------------------
(* Entity: the constructor, its components and the events triggered on the *)
(* entity before and after its components are ready.  Async and Messenger  *)
(* are not part of these sources: Async.setUp(functions, callback) hands   *)
(* each function a callback and runs the final callback once every one of  *)
(* them has been called, either at once inside the last of these calls or  *)
(* later on its own ("inline" tells which); Messenger.trigger calls the    *)
(* listeners of the event at once, in the order they were added.           *)

\* the most components of a definition, the most events triggered from
\* outside on one entity
MaxComponents == 3

MaxEntityTriggers == 2

\* component classes: whether initialize leaves the callback to the factory
\* (sync), the event initialize triggers on the owner, the event listened
\* for and the event triggered on the owner in answer
ComponentClass(type) ==
    CASE type = "greeter" -> [sync |-> TRUE, onInit |-> "hello", listens |-> "none", answer |-> "none"]
      [] type = "loader" -> [sync |-> FALSE, onInit |-> "loading", listens |-> "none", answer |-> "none"]
      [] type = "echo" -> [sync |-> TRUE, onInit |-> "none", listens |-> "hello", answer |-> "echoed"]
      [] OTHER -> [sync |-> TRUE, onInit |-> "none", listens |-> "none", answer |-> "none"]

ComponentTypes == {"plain", "greeter", "loader", "echo"}

\* definition.components
EntityDefinitions == UNION {[1..n -> ComponentTypes] : n \in 0..MaxComponents}

\* events triggered on the entity by other objects
OutsideEvents == {"poke", "hello"}

\* before new Entity(definition, instanceDefinition, callback)
Defined(definition, inline) ==
    [stage |-> "defined", definition |-> definition, inline |-> inline, deferring |-> FALSE,
     savedEvents |-> <<>>, constructed |-> <<>>, components |-> <<>>, waiting |-> {}, increment |-> 0,
     made |-> 0, outside |-> 0, recorded |-> <<>>, delivered |-> <<>>]

\* an event triggered: its number among the events triggered on the entity
\* and who triggered it
EventOf(st, event, from) == [event |-> event, ticket |-> st.made + 1, from |-> from, saved |-> FALSE]

\* this.trigger = this.triggerEvent = function (event, message): savedEvents.push, savedMessages.push
SaveEvent(st, event, from) ==
    [st EXCEPT !.made = @ + 1,
               !.savedEvents = Append(@, EventOf(st, event, from)),
               !.recorded = Append(@, EventOf(st, event, from))]

RECURSIVE EntityTrigger(_, _, _)
RECURSIVE CallListeners(_, _, _)
\* the listeners of the components constructed so far, in order
CallListeners(st, event, k) ==
    IF k > Len(st.constructed) THEN st
    ELSE CallListeners(IF ComponentClass(st.constructed[k]).listens = event
                       THEN EntityTrigger(st, ComponentClass(st.constructed[k]).answer, "listener")
                       ELSE st,
                       event, k + 1)

\* Messenger.trigger(event, message)
MessengerTrigger(st, entry) == CallListeners([st EXCEPT !.delivered = Append(@, entry)], entry.event, 1)

\* entity.trigger / entity.triggerEvent: the constructor's own function
\* while it is in place, the one of Messenger once it has been deleted
EntityTrigger(st, event, from) ==
    IF st.deferring THEN SaveEvent(st, event, from)
    ELSE MessengerTrigger([st EXCEPT !.made = @ + 1], EventOf(st, event, from))

RECURSIVE TriggerSavedLastFirst(_, _)
\* the saved events delivered last first
TriggerSavedLastFirst(st, i) ==
    IF i > Len(st.savedEvents) THEN st
    ELSE TriggerSavedLastFirst(MessengerTrigger(st, [st.savedEvents[Len(st.savedEvents) + 1 - i] EXCEPT !.saved = TRUE]),
                               i + 1)

RECURSIVE TriggerSaved(_, _)
\* for (i = 0; i < savedEvents.length; i++) this.trigger(savedEvents[i], savedMessages[i])
TriggerSaved(st, i) ==
    IF i > Len(st.savedEvents) THEN st
    ELSE TriggerSaved(MessengerTrigger(st, [st.savedEvents[i] EXCEPT !.saved = TRUE]), i + 1)

\* if (callback) callback()
CallbackRun(st) ==
    [st EXCEPT !.stage = "loaded",
               !.delivered = Append(@, [event |-> "callback()", ticket |-> 0, from |-> "entity", saved |-> FALSE])]

\* the final callback handed to Async.setUp: the entity's own trigger is
\* deleted, the saved events are triggered, then load, then the callback
Completed(st) ==
    CallbackRun(EntityTrigger([TriggerSaved([st EXCEPT !.deferring = FALSE], 1) EXCEPT !.savedEvents = <<>>],
                              "load", "entity"))

\* the callback Async hands to a function has been called
Resolved(st) ==
    IF st.increment + 1 < Len(st.definition) THEN [st EXCEPT !.increment = @ + 1]
    ELSE IF st.inline THEN Completed([st EXCEPT !.increment = @ + 1])
    ELSE [st EXCEPT !.increment = @ + 1, !.stage = "ready"]

\* new Component(this, componentDefinition, callback): the listeners are
\* added, initialize runs, and the callback is called unless initialize
\* keeps it for later
ComponentConstructed(st, k) ==
    The({The({IF ComponentClass(st.definition[k]).sync THEN Resolved(b)
              ELSE [b EXCEPT !.waiting = @ \cup {k}] :
              b \in {IF ComponentClass(st.definition[k]).onInit = "none" THEN a
                     ELSE EntityTrigger(a, ComponentClass(st.definition[k]).onInit, "component")}}) :
         a \in {[st EXCEPT !.constructed = Append(@, st.definition[k])]}})

\* addComponent(component): components.push and component-added
addComponent(st, k) ==
    EntityTrigger([st EXCEPT !.components = Append(@, st.definition[k])], "component-added", "entity")

RECURSIVE ComponentInits(_, _)
\* Async calls componentInit for each component definition, in order
ComponentInits(st, k) ==
    IF k > Len(st.definition) THEN st
    ELSE ComponentInits(addComponent(ComponentConstructed(st, k), k), k + 1)

\* the constructor of Entity
EntityConstructor(st) ==
    IF st.definition = <<>>
    THEN (IF st.inline THEN Completed([st EXCEPT !.deferring = TRUE])
          ELSE [st EXCEPT !.deferring = TRUE, !.stage = "ready"])
    ELSE ComponentInits([st EXCEPT !.deferring = TRUE, !.stage = "loading"], 1)

InitEntity ==
    /\ \E definition \in EntityDefinitions, inline \in BOOLEAN : newEntity = Defined(definition, inline)
    /\ cellCall = NoCellCall
    /\ audioVO = NoAudioVO
    /\ axisCall = NoAxisCall
    /\ delayMessage = NoDelayMessage
    /\ delayTrace = NoDelayTrace
    /\ defs = <<>>
    /\ entities = <<>>
    /\ solidEntities = <<>>
    /\ HandlerInit

EntityFrame ==
    <<cellCall, audioVO, axisCall, DelayVars, defs, entities, solidEntities, againstGrid, terrain, FrameVars,
      lastOp, ops>>

\* new platypus.Entity(definition, instanceDefinition, callback)
CreateEntity ==
    /\ newEntity.stage = "defined"
    /\ newEntity' = EntityConstructor(newEntity)
    /\ UNCHANGED EntityFrame

\* a component that kept its callback calls it
ComponentLoaded(k) ==
    /\ k \in newEntity.waiting
    /\ newEntity' = Resolved([newEntity EXCEPT !.waiting = @ \ {k}])
    /\ UNCHANGED EntityFrame

\* Async runs the final callback after the last callback has returned
AsyncCompleted ==
    /\ newEntity.stage = "ready"
    /\ newEntity' = Completed(newEntity)
    /\ UNCHANGED EntityFrame

\* another object triggers an event on the entity
TriggerOnEntity(event) ==
    /\ newEntity.stage \in {"loading", "ready", "loaded"}
    /\ newEntity.outside < MaxEntityTriggers
    /\ newEntity' = EntityTrigger([newEntity EXCEPT !.outside = @ + 1], event, "outside")
    /\ UNCHANGED EntityFrame

NextEntity ==
    \/ CreateEntity
    \/ \E k \in 1..MaxComponents : ComponentLoaded(k)
    \/ AsyncCompleted
    \/ \E event \in OutsideEvents : TriggerOnEntity(event)

SpecEntity == InitEntity /\ [][NextEntity]_vars

---------------------------------------------------------------------------
(* AudioVO: the event list of a voice-over and the events triggered from   *)
(* it.  The player (springroll VOPlayer) is not part of these sources: it  *)
(* plays one sound at a time, counts its elapsed time and keeps the two    *)
(* callbacks of the playback; play on a busy player and stop end the       *)
(* playback, and whether the player then calls the second callback at once *)
(* or not at all is drawn ("notifies").  Every voice-over started and      *)
(* every event of its list carry a number so that what is triggered can be *)
(* told apart.                                                             *)

\* the most voice-overs started by other objects, the longest playback
MaxVoices == 2

MaxElapsed == 3

\* definition.audioMap: the sound and the events of each message
AudioMap(key) ==
    CASE key = "intro" -> [sound |-> "intro", events |-> <<[event |-> "wave", time |-> 3], [event |-> "next", time |-> 2]>>]
      [] key = "next" -> [sound |-> "next", events |-> <<[event |-> "nod", time |-> 1], [event |-> "bow", time |-> 2]>>]
      [] key = "tell" -> [sound |-> "tell", events |-> <<[event |-> "wave", time |-> 2], [event |-> "nod", time |-> 0]>>]
      [] key = "hush" -> [sound |-> "hush", events |-> <<[event |-> "stop-audio", time |-> 1], [event |-> "bye", time |-> 2]>>]
      [] OTHER -> [sound |-> "beep", events |-> <<>>]

AudioKeys == {"intro", "next", "tell", "hush", "beep"}

\* the constructor: an empty event list, an idle player
AudioVOConstructed(notifies) ==
    [stage |-> "ready", eventList |-> <<>>, paused |-> FALSE, notifies |-> notifies,
     player |-> [playing |-> FALSE, sound |-> "", elapsed |-> 0, callbacks |-> FALSE, vo |-> 0],
     started |-> 0, asked |-> 0, lists |-> <<>>, triggered |-> <<>>]

\* addEvents(fromList, toList), the events marked with the voice-over
addEvents(fromList, toList, vo) ==
    toList \o [i \in 1..Len(fromList) |->
                  [event |-> fromList[i].event, time |-> fromList[i].time, vo |-> vo, n |-> i]]

RECURSIVE InsertByTime(_, _)
InsertByTime(sorted, entry) ==
    IF sorted = <<>> THEN <<entry>>
    ELSE IF entry.time < Head(sorted).time THEN <<entry>> \o sorted
    ELSE <<Head(sorted)>> \o InsertByTime(Tail(sorted), entry)

RECURSIVE SortedByTime(_)
\* eventList.sort(sortByTime): ascending time, equal times left in order
SortedByTime(list) ==
    IF list = <<>> THEN <<>>
    ELSE InsertByTime(SortedByTime(SubSeq(list, 1, Len(list) - 1)), list[Len(list)])

\* what is known of an event when it is triggered
TriggerRecord(st, entry, by) ==
    [event |-> entry.event, time |-> entry.time, vo |-> entry.vo, n |-> entry.n, by |-> by,
     elapsed |-> st.player.elapsed, playing |-> st.player.vo]

RECURSIVE playSound(_, _)
RECURSIVE onComplete(_, _, _)
RECURSIVE playerStop(_)

\* owner.trigger(event, message): the listeners of this component
OwnerTrigger(st, entry, by) ==
    The({IF entry.event = "stop-audio" THEN playerStop(st1)
         ELSE IF entry.event \in AudioKeys THEN playSound(st1, entry.event)
         ELSE st1 :
         st1 \in {[st EXCEPT !.triggered = Append(@, TriggerRecord(st, entry, by))]}})

\* events.splice(0, 1)
SplicedFirst(st) == [st EXCEPT !.eventList = IF @ = <<>> THEN <<>> ELSE Tail(@)]

RECURSIVE TimeEvents(_, _, _, _)
\* while (events.length && (finished || (events[0].time <= currentTime)))
TimeEvents(st, finished, currentTime, by) ==
    IF st.eventList = <<>> \/ ~(finished \/ Head(st.eventList).time <= currentTime) THEN st
    ELSE TimeEvents(SplicedFirst(OwnerTrigger(st, Head(st.eventList), by)), finished, currentTime, by)

\* checkTimeEvents(finished): currentTime is read once, before the loop
checkTimeEvents(st, finished, by) ==
    IF st.eventList = <<>> THEN st ELSE TimeEvents(st, finished, st.player.elapsed, by)

\* onComplete(successful) of the playback of voice-over vo
onComplete(st, successful, vo) ==
    The({[st1 EXCEPT !.triggered =
                 Append(@, [event |-> "sequence-complete", time |-> 0, vo |-> vo, n |-> 0,
                            by |-> IF successful THEN "completed" ELSE "cancelled",
                            elapsed |-> st1.player.elapsed, playing |-> st1.player.vo])] :
         st1 \in {checkTimeEvents(st, TRUE, "complete")}})

\* the player ends a playback that is under way: its callbacks are dropped
\* and, if the player notifies, the second one is called first
PlaybackEnded(st) ==
    IF ~st.player.playing THEN st
    ELSE IF st.notifies /\ st.player.callbacks
    THEN onComplete([st EXCEPT !.player.playing = FALSE, !.player.callbacks = FALSE], FALSE, st.player.vo)
    ELSE [st EXCEPT !.player.playing = FALSE, !.player.callbacks = FALSE]

\* this.player.stop()
playerStop(st) == PlaybackEnded(st)

\* this.player.play(sound, completed, cancelled) for voice-over vo
playerPlay(st, sound, vo) ==
    [PlaybackEnded(st) EXCEPT !.player = [playing |-> TRUE, sound |-> sound, elapsed |-> 0,
                                          callbacks |-> TRUE, vo |-> vo]]

\* if (eventList || value.events): the list is emptied, filled and sorted
EventsListed(st, events, vo) ==
    IF events = <<>> THEN st
    ELSE [st EXCEPT !.eventList = SortedByTime(addEvents(events, <<>>, vo))]

\* the listener made by playSound(soundDefinition) for the message key
playSound(st, key) ==
    The({EventsListed(playerPlay([st EXCEPT !.started = vo,
                                             !.lists = Append(@, SortedByTime(addEvents(AudioMap(key).events, <<>>, vo)))],
                                 AudioMap(key).sound, vo),
                      AudioMap(key).events, vo) :
         vo \in {st.started + 1}})

InitAudioVO ==
    /\ \E notifies \in BOOLEAN : audioVO = AudioVOConstructed(notifies)
    /\ cellCall = NoCellCall
    /\ newEntity = NoEntity
    /\ axisCall = NoAxisCall
    /\ delayMessage = NoDelayMessage
    /\ delayTrace = NoDelayTrace
    /\ defs = <<>>
    /\ entities = <<>>
    /\ solidEntities = <<>>
    /\ HandlerInit

AudioFrame ==
    <<cellCall, newEntity, axisCall, DelayVars, defs, entities, solidEntities, againstGrid, terrain, FrameVars,
      lastOp, ops>>

\* another object triggers a message of the audioMap on the owner
TriggerAudio(key) ==
    /\ audioVO.asked < MaxVoices
    /\ audioVO' = playSound([audioVO EXCEPT !.asked = @ + 1], key)
    /\ UNCHANGED AudioFrame

\* "handle-render"
HandleRender ==
    /\ audioVO' = IF audioVO.paused THEN audioVO ELSE checkTimeEvents(audioVO, FALSE, "render")
    /\ UNCHANGED AudioFrame

\* the sound plays on for a while
SoundPlays ==
    /\ audioVO.player.playing
    /\ audioVO.player.elapsed < MaxElapsed
    /\ audioVO' = [audioVO EXCEPT !.player.elapsed = @ + 1]
    /\ UNCHANGED AudioFrame

\* the sound has played to its end: the player calls the first callback
SoundCompletes ==
    /\ audioVO.player.playing
    /\ audioVO.player.callbacks
    /\ audioVO' = onComplete([audioVO EXCEPT !.player.playing = FALSE, !.player.callbacks = FALSE],
                             TRUE, audioVO.player.vo)
    /\ UNCHANGED AudioFrame

\* "stop-audio" triggered by another object
StopAudio ==
    /\ audioVO.player.playing
    /\ audioVO' = playerStop(audioVO)
    /\ UNCHANGED AudioFrame

NextAudioVO ==
    \/ \E key \in AudioKeys : TriggerAudio(key)
    \/ HandleRender
    \/ SoundPlays
    \/ SoundCompletes
    \/ StopAudio

SpecAudioVO == InitAudioVO /\ [][NextAudioVO]_vars

---------------------------------------------------------------------------
(* Properties.  A "call" is an entry of trace.calls: one call of           *)
(* checkSolidEntityCollision of the current frame, with the positions of   *)
(* all bodies before and after it as <<x, y, previousX, previousY>>.       *)

Calls == {trace.calls[i] : i \in 1..Len(trace.calls)}

\* a body with one collision type and one rectangle
SingleRect(e) ==
    /\ Len(Def(e).collisionTypes) = 1
    /\ Len(Def(e).shapes[Def(e).collisionTypes[1]]) = 1

OnlyType(e) == Def(e).collisionTypes[1]

\* the rectangle of a single-rectangle body placed at (x, y)
BoxAt(e, x, y) == ShapeAABB(ShapeAt(e, OnlyType(e), 1, x, y))

AtRest(p) == p[1] = p[3] /\ p[2] = p[4]

\* the rectangle of the resolved body where the call found it (at its
\* previous position), at its goal, and where the call left it
StartBox(c) == BoxAt(c.ent, c.pX, c.pY)

GoalBox(c) == BoxAt(c.ent, c.pX + c.dX, c.pY + c.dY)

EndBox(c) == BoxAt(c.ent, c.after[c.ent][1], c.after[c.ent][2])

\* the rectangle of another body during the call
OtherBox(c, o) == BoxAt(o, c.before[o][1], c.before[o][2])

\* the other bodies that carry a type the resolved body collides solidly with
Matching(c) ==
    {o \in Ent \ {c.ent} :
        \E i \in 1..Len(Def(o).collisionTypes) :
            Def(o).collisionTypes[i] \in Range(Def(c.ent).solid[OnlyType(c.ent)])}

\* a call that resolves one single-rectangle body, moved along x only,
\* among single-rectangle solid bodies that are static (at rest since the
\* frame began), indexed in the grid where they stand, not jump-through, and
\* do not overlap the body where it starts
PlainCall(c) ==
    /\ ~c.group
    /\ SingleRect(c.ent)
    /\ ~Def(c.ent).jumpThrough
    /\ c.dY = 0
    /\ c.dX /= 0
    /\ \A o \in Matching(c) :
          /\ SingleRect(o)
          /\ ~Def(o).jumpThrough
          /\ AtRest(c.before[o])
          /\ c.before[o] = trace.start[o]
          /\ c.before[o] = Positions(entities)[o]
          /\ entities[o].hasGrid
          /\ AABBEquals(entities[o].againstAABB, mapDown(OtherBox(c, o)))
          /\ ~AABBCollides(StartBox(c), OtherBox(c, o))

SameRows(a, b) == a.top < b.bottom /\ a.bottom > b.top

\* the solid bodies ahead of the resolved body whose near edge its goal
\* rectangle reaches: the near edge is at a distance d, 0 <= d < |dX|
Ahead(c) ==
    {o \in Matching(c) :
        /\ SameRows(StartBox(c), OtherBox(c, o))
        /\ OtherBox(c, o).left < OtherBox(c, o).right
        /\ IF c.dX > 0
           THEN OtherBox(c, o).left >= StartBox(c).right /\ OtherBox(c, o).left < GoalBox(c).right
           ELSE OtherBox(c, o).right <= StartBox(c).left /\ OtherBox(c, o).right > GoalBox(c).left}

\* those of them the goal rectangle overlaps
Overlapped(c) == {o \in Ahead(c) : AABBCollides(GoalBox(c), OtherBox(c, o))}

\* the call left the resolved body on the far side of o
FarSide(c, o) ==
    IF c.dX > 0 THEN EndBox(c).left >= OtherBox(c, o).right ELSE EndBox(c).right <= OtherBox(c, o).left

\* a collision record of the call against o, and its event on the body
Recorded(c, o) ==
    /\ \E i \in 1..Len(c.xData) : c.xData[i].thisShape.owner = c.ent /\ c.xData[i].thatShape.owner = o
    /\ \E i \in 1..Len(log) :
          log[i].hitType = "solid" /\ log[i].target = c.ent /\ log[i].entity = o

\* the width of the resolved body
BodyWidth(c) == AABBWidth(StartBox(c))

BulletCall(c) == PlainCall(c) /\ Def(c.ent).bullet

SettledAt(c, S) ==
    \E o \in S :
        /\ \A q \in S : OtherBox(c, o).left <= OtherBox(c, q).left
        /\ BoxAt(c.ent, c.finX, c.finY).right = OtherBox(c, o).left
        /\ c.finX = c.before[o][1] - (Def(o).shapes[OnlyType(o)][1].hw + Def(c.ent).shapes[OnlyType(c.ent)][1].hw)
        /\ c.finY = c.pY
        /\ c.finX /= c.pX + c.dX
        /\ c.after[c.ent] = <<c.finX, c.finY, c.finX, c.finY>>
        /\ \E i \in 1..Len(log) :
              /\ log[i].hitType = "solid"
              /\ log[i].target = c.ent
              /\ log[i].entity = o
              /\ log[i].name = OnlyType(o)
              /\ log[i].x = 1
              /\ log[i].y = 0
              /\ log[i].direction = <<1, 0>>

WalkCall(c) == PlainCall(c) /\ ~Def(c.ent).bullet /\ c.dX > 0

SolidEvents == SelectSeq(log, LAMBDA m : m.hitType = "solid")

\* the collision records of the frame, in the order their events are
\* triggered: call by call, the X records last first, then the Y records
AllRecords == Flatten([i \in 1..Len(trace.calls) |-> Rev(trace.calls[i].xData) \o Rev(trace.calls[i].yData)])

\* event b is event a seen from the other body
Mirrored(a, b) ==
    /\ b.target = a.entity
    /\ b.entity = a.target
    /\ a.name = a.type
    /\ b.name = b.type
    /\ b.type = a.myType
    /\ b.myType = a.type
    /\ b.x = -a.x
    /\ b.y = -a.y
    /\ b.direction = <<-a.direction[1], -a.direction[2]>>

\* C3: every solid collision record between a moving body A and a struck
\* body B makes exactly two events, hit-by-<B type> on A and then
\* hit-by-<A type> on B; the second carries x and y negated, the contact
\* vector inverted and myType and type swapped
Symmetry ==
    /\ Len(SolidEvents) = 2 * Len(AllRecords)
    /\ \A k \in 1..Len(AllRecords) :
          /\ SolidEvents[(2 * k) - 1].target = AllRecords[k].thisShape.owner
          /\ SolidEvents[(2 * k) - 1].entity = AllRecords[k].thatShape.owner
          /\ SolidEvents[(2 * k) - 1].name = AllRecords[k].thatShape.collisionType
          /\ SolidEvents[(2 * k) - 1].myType = AllRecords[k].thisShape.collisionType
          /\ SolidEvents[(2 * k) - 1].direction = AllRecords[k].vector
          /\ SolidEvents[(2 * k) - 1].x + SolidEvents[(2 * k) - 1].y = AllRecords[k].direction
          /\ Mirrored(SolidEvents[(2 * k) - 1], SolidEvents[2 * k])

\* a frame with a record whose direction is not 0
SymmetryWitness ==
    /\ Len(AllRecords) > 0
    /\ \E k \in 1..Len(AllRecords) : AllRecords[k].direction /= 0 /\ AllRecords[k].thatShape.owner /= 0
    /\ Len(SolidEvents) >= 2

\* a step that is the soft pass of a frame or a call of getEntityCollisions
SoftStep ==
    \/ pc = "softs" /\ pc' /= "softs"
    \/ ops' = ops + 1 /\ lastOp'.op = "getEntityCollisions"

\* C4: the soft pass and getEntityCollisions change no position, no
\* previous position and nothing in the grid
SoftPassNonMutating ==
    [][SoftStep => (Positions(entities') = Positions(entities) /\ againstGrid' = againstGrid)]_vars

\* the soft pass has run and has found overlaps
SoftPassWitness ==
    /\ lastOp.op = "checkSoftCollisions"
    /\ pc = "idle"
    /\ \E i \in 1..Len(log) : log[i].hitType = "soft"
    /\ againstGrid = lastOp.gridBefore
    /\ againstGrid /= NoGrid

\* C5: a group whose owner moved by (dx, dy), resolved without a collision
\* record, leaves every member that had not moved by itself displaced by
\* exactly (dx, dy) from its previous position
GroupCoherence ==
    \A c \in Calls :
        (c.group /\ (c.dX /= 0 \/ c.dY /= 0) /\ c.xData = <<>> /\ c.yData = <<>>) =>
            \A m \in Range(solidEntities[c.ent]) :
                (m = c.ent \/ AtRest(c.before[m])) =>
                    /\ c.after[m][1] = c.before[m][3] + c.dX
                    /\ c.after[m][2] = c.before[m][4] + c.dY

\* a group of three moved by (5, 0) without obstruction, every member moved by (5, 0)
GroupCoherenceWitness ==
    \E c \in Calls :
        /\ c.group
        /\ c.dX = 5
        /\ c.dY = 0
        /\ c.xData = <<>>
        /\ Cardinality(Range(solidEntities[c.ent])) = 3
        /\ \A m \in Range(solidEntities[c.ent]) :
              AtRest(c.before[m]) \/ m = c.ent
        /\ \A m \in Range(solidEntities[c.ent]) : c.after[m][1] = c.before[m][3] + 5

\* the last operation was updateAgainst on the body the operation before it
\* was updateAgainst on
UpdatedTwice ==
    /\ lastOp.op = "updateAgainst"
    /\ lastOp.prevOp = "updateAgainst"
    /\ lastOp.prevE = lastOp.e

\* C6: the second of two calls of updateAgainst in succession on a
\* registered body leaves the grid as the first call left it: the same
\* cells, the same lists, no entry of the body added
IdempotentReindexing == UpdatedTwice => againstGrid = lastOp.gridBefore

\* two calls in succession for a body that was moved to other cells since
\* it was registered, and is indexed where it is
IdempotentReindexingWitness ==
    /\ UpdatedTwice
    /\ <<entities[lastOp.e].x, entities[lastOp.e].y>> /= GridStart[lastOp.e]
    /\ entities[lastOp.e].againstGrid /= <<>>
    /\ entities[lastOp.e].againstGrid /= CellsOf(mapDown(GetAABB([e \in Ent |-> BodyAt(GridStart[e][1], GridStart[e][2])], lastOp.e)))
    /\ AABBEquals(entities[lastOp.e].againstAABB, mapDown(GetAABB(entities, lastOp.e)))

\* the body is in no list of the grid
InNoCell(g, e) == \A k \in DOMAIN g : \A t \in DOMAIN g[k] : e \notin Range(g[k][t])

\* C7: after the removal of a registered body the body is in no cell list
\* under any type, and a second removal changes nothing
RemovalComplete ==
    /\ (lastOp.op = "remove" /\ lastOp.prevOp \in {"add", "updated"} /\ lastOp.prevE = lastOp.e) =>
           InNoCell(againstGrid, lastOp.e)
    /\ (lastOp.op = "remove" /\ lastOp.prevOp = "remove" /\ lastOp.prevE = lastOp.e) =>
           againstGrid = lastOp.gridBefore

\* a body registered once, then removed
RemovalWitness ==
    /\ lastOp.op = "remove"
    /\ lastOp.prevOp = "add"
    /\ lastOp.prevE = lastOp.e
    /\ ~InNoCell(lastOp.gridBefore, lastOp.e)
    /\ InNoCell(againstGrid, lastOp.e)

\* the bodies listed under a type in at least one of the cells
ListedIn(g, cells, type) == UNION {Range(CellGet(g, cells[i], type)) : i \in 1..Len(cells)}

\* the list a query returned for a type
Returned(type) == IF type \in DOMAIN lastOp.data THEN lastOp.data[type] ELSE <<>>

\* C8: getAgainstGrid returns for each requested type exactly the bodies
\* listed under that type in a cell the swept AABB overlaps, each body once
QueryExact ==
    lastOp.op = "getAgainstGrid" =>
        \A i \in 1..Len(lastOp.types) :
            /\ Range(Returned(lastOp.types[i])) =
                   ListedIn(lastOp.gridBefore, CellsOf(mapDown(lastOp.sweep)), lastOp.types[i])
            /\ \A v \in Range(Returned(lastOp.types[i])) : Count(Returned(lastOp.types[i]), v) = 1

\* a query that returned the bodies of the cells its sweep overlaps
QueryExactWitness ==
    /\ lastOp.op = "getAgainstGrid"
    /\ \E i \in 1..Len(lastOp.types) :
          /\ Returned(lastOp.types[i]) /= <<>>
          /\ Range(Returned(lastOp.types[i])) =
                 ListedIn(lastOp.gridBefore, CellsOf(mapDown(lastOp.sweep)), lastOp.types[i])

\* C9: getEntityCollisions for a body, made while nothing was ever
\* registered, returns no collisions and raises no error
NeverPopulatedNoError ==
    (lastOp.op = "getEntityCollisions" /\ lastOp.gridBefore = NoGrid) =>
        (~lastOp.threw /\ lastOp.msgs = <<>>)

\* the query made for a body without collision types
NeverPopulatedWitness ==
    /\ lastOp.op = "getEntityCollisions"
    /\ lastOp.gridBefore = NoGrid
    /\ ~lastOp.threw

IsPrefix(s, t) == Len(s) <= Len(t) /\ \A i \in 1..Len(s) : s[i] = t[i]

\* C10: the steps of a frame run in the order classify, groups, solids,
\* non-colliders, softs; every solid hit event comes before every soft hit
\* event; the group resolutions come before the individual ones and each
\* resolution starts from the positions the one before it left
FrameOrdering ==
    /\ IsPrefix(trace.phases, <<"classify", "groups", "solids", "nons", "softs">>)
    /\ (pc /= "idle" /\ pc /= "new") => (Len(trace.phases) < 5 /\ pc = Steps[Len(trace.phases) + 1])
    /\ \A i, j \in 1..Len(log) : (i < j /\ log[i].hitType = "soft") => log[j].hitType /= "solid"
    /\ \A i, j \in 1..Len(trace.calls) : (i < j /\ trace.calls[j].group) => trace.calls[i].group
    /\ \A i \in 1..Len(trace.calls) :
          trace.calls[i].before = IF i = 1 THEN trace.start ELSE trace.calls[i - 1].after

\* a whole frame in which a group was moved and a member was then resolved
\* from where the group had put it
FrameOrderingWitness ==
    /\ trace.phases = Steps
    /\ pc = "idle"
    /\ \E i, j \in 1..Len(trace.calls) :
          /\ i < j
          /\ trace.calls[i].group
          /\ trace.calls[i].dX /= 0
          /\ ~trace.calls[j].group
          /\ trace.calls[j].before = trace.calls[i].after
          /\ trace.calls[j].before /= trace.start

\* the soft pass of a frame has just run to its end
SoftPassDone == lastOp.op = "checkSoftCollisions" /\ pc = "idle" /\ ~lastOp.threw

\* the body is indexed in the grid where it stands
Indexed(e) ==
    /\ entities[e].hasGrid
    /\ AABBEquals(entities[e].againstAABB, mapDown(GetAABB(entities, e)))

\* a shape of type ta of body a overlaps a shape of type tb of body o
ShapesOverlap(a, ta, o, tb) ==
    \E i \in 1..Len(GetShapes(entities, a, ta)), j \in 1..Len(GetShapes(entities, o, tb)) :
        ShapeCollides(GetShapes(entities, a, ta)[i], GetShapes(entities, o, tb)[j])

\* the collision types of the definitions
TypeNames == {"hero", "feet", "block", "coin", "sensor"}

\* the pairs the soft pass is about: type ta of body a lists type tb in its
\* soft collision map, body o carries tb, both are indexed where they stand
\* and their shapes of these types overlap
SoftPairs ==
    {q \in Ent \X TypeNames \X Ent \X TypeNames :
        /\ q[1] /= q[3]
        /\ HasType(q[1], q[2])
        /\ HasType(q[3], q[4])
        /\ q[4] \in Range(Def(q[1]).soft[q[2]])
        /\ Indexed(q[1])
        /\ Indexed(q[3])
        /\ ShapesOverlap(q[1], q[2], q[3], q[4])}

\* the soft events of the frame: hit-by-<tb> triggered on a for body o
SoftReports(a, ta, o, tb) ==
    {i \in 1..Len(log) :
        /\ log[i].hitType = "soft"
        /\ log[i].target = a
        /\ log[i].name = tb
        /\ log[i].entity = o
        /\ log[i].type = tb
        /\ log[i].myType = ta}

SoftQueryDone == lastOp.op = "getEntityCollisions" /\ ~lastOp.threw


\* the messages of that run for one combination of own type, other body
\* and other type
SoftCount(ta, o, tb) ==
    Cardinality({i \in 1..Len(lastOp.msgs) :
        lastOp.msgs[i].myType = ta /\ lastOp.msgs[i].entity = o /\ lastOp.msgs[i].type = tb})

\* C12: one run of checkEntityForSoftCollisions for a body hands out at
\* most one message per combination of own collision type, other body and
\* other collision type, only for combinations with an overlapping pair of
\* shapes, and none about the body itself
SoftOncePerMatch ==
    SoftQueryDone =>
        \A ta \in TypeNames, o \in Ent, tb \in TypeNames :
            /\ SoftCount(ta, o, tb) <= 1
            /\ SoftCount(ta, o, tb) > 0 => (o /= lastOp.e /\ ShapesOverlap(lastOp.e, ta, o, tb))

\* a run that reported one combination twice, the other body being indexed
\* where it stands
RepeatedSoftReport ==
    /\ SoftQueryDone
    /\ \E ta \in TypeNames, o \in Ent, tb \in TypeNames :
          /\ SoftCount(ta, o, tb) = 2
          /\ o /= lastOp.e
          /\ Indexed(o)
          /\ ShapesOverlap(lastOp.e, ta, o, tb)

\* the records of the frame with their axis
AxisRecords ==
    UNION {{<<"x", c.xData[i]>> : i \in 1..Len(c.xData)} \cup {<<"y", c.yData[i]>> : i \in 1..Len(c.yData)} :
           c \in Calls}

\* the contact of a record lies strictly before the coordinate the moving
\* shape was to reach
StrictlyEarlier(axis, rec) ==
    /\ rec.occurred
    /\ rec.direction \in {-1, 1}
    /\ rec.direction * (Coord(rec.thisShape, axis) - rec.position) > 0

\* the positions at which a call tests the shapes of its body: for each of
\* its steps the goal X with the Y the step began at, then the step's goal
TestedAt(c) ==
    UNION {{<<c.pX + (k * (c.dX \div c.planned)), c.pY + ((k - 1) * (c.dY \div c.planned))>>,
            <<c.pX + (k * (c.dX \div c.planned)), c.pY + (k * (c.dY \div c.planned))>>} :
           k \in 1..c.planned}

\* no shape of another body, of a type the body collides solidly with, is
\* met by a shape of the body at any position the call tests
NoneInTheWay(c) ==
    \A p \in TestedAt(c), o \in Ent \ {c.ent}, ta \in TypeNames, tb \in TypeNames :
        (HasType(c.ent, ta) /\ HasType(o, tb) /\ tb \in Range(Def(c.ent).solid[ta])) =>
            \A i \in 1..Len(Def(c.ent).shapes[ta]), j \in 1..Len(Def(o).shapes[tb]) :
                ~ShapeCollides(ShapeAt(c.ent, ta, i, p[1], p[2]),
                               ShapeAt(o, tb, j, c.before[o][3], c.before[o][4]))

\* C13: every solid hit event of a frame belongs to a collision record of
\* its axis between the two bodies, every record holds a contact strictly
\* before the coordinate the shape was to reach, and a body resolved on
\* its own that meets no shape on its way gets no record and ends at its goal
EventsOnlyOnContact ==
    /\ \A i \in 1..Len(SolidEvents) :
          \E r \in AxisRecords :
              /\ {SolidEvents[i].target, SolidEvents[i].entity} = {r[2].thisShape.owner, r[2].thatShape.owner}
              /\ IF r[1] = "x" THEN SolidEvents[i].x /= 0 ELSE SolidEvents[i].y /= 0
    /\ Len(SolidEvents) <= 2 * Len(AllRecords)
    /\ \A r \in AxisRecords : StrictlyEarlier(r[1], r[2])
    /\ \A c \in Calls :
          (~c.group /\ c.planned > 0 /\ NoneInTheWay(c)) =>
              /\ c.xData = <<>>
              /\ c.yData = <<>>
              /\ c.after[c.ent] = <<c.pX + c.dX, c.pY + c.dY, c.pX + c.dX, c.pY + c.dY>>

\* a frame in which one body was stopped with a record and events and
\* another, moved as well, met nothing and reached its goal
EventsOnlyOnContactWitness ==
    /\ Len(trace.phases) = 5
    /\ SolidEvents /= <<>>
    /\ \E c \in Calls : c.xData /= <<>> /\ ~c.group
    /\ \E c \in Calls :
          /\ ~c.group
          /\ c.planned > 0
          /\ NoneInTheWay(c)
          /\ c.xData = <<>>
          /\ c.yData = <<>>
          /\ c.after[c.ent][1] = c.pX + c.dX
          /\ c.after[c.ent][2] = c.pY + c.dY


\* where body e is listed in grid g: the cells and types with the number
\* of its entries
EntriesOf(g, e) ==
    {<<k, t, Count(CellGet(g, k, t), e)>> : k \in DOMAIN g, t \in TypeNames} \ {<<k, t, 0>> : k \in DOMAIN g, t \in TypeNames}

Moved(e) == entities[e].x /= entities[e].previousX \/ entities[e].y /= entities[e].previousY

\* the events the step has added to the log
NewEvents == {i \in (Len(log) + 1)..Len(log') : TRUE}

\* the step that is the non-collider broadcast of a frame
NonsStep == pc = "nons" /\ pc' /= "nons"

\* C14: the non-collider broadcast triggers relocate-entity with the
\* body's position once on each non-collider whose position differs from
\* its previous position and re-indexes it; on the others it triggers
\* nothing and leaves their grid entries alone; it changes no position
NonColliderBroadcast ==
    [][NonsStep =>
        /\ \A e \in Ent : entities'[e].x = entities[e].x /\ entities'[e].y = entities[e].y
        /\ \A i \in NewEvents : log'[i].name = "relocate-entity" /\ log'[i].target \in Range(nonColliders)
        /\ \A e \in Range(nonColliders) :
              IF Moved(e)
              THEN /\ Cardinality({i \in NewEvents : log'[i].target = e}) = 1
                   /\ \A i \in NewEvents :
                         log'[i].target = e => (log'[i].x = entities[e].x /\ log'[i].y = entities[e].y)
                   /\ AABBEquals(entities'[e].againstAABB, mapDown(GetAABB(entities', e)))
                   /\ {en[1] : en \in EntriesOf(againstGrid', e)} = Range(CellsOf(mapDown(GetAABB(entities', e))))
              ELSE /\ {i \in NewEvents : log'[i].target = e} = {}
                   /\ EntriesOf(againstGrid', e) = EntriesOf(againstGrid, e)
                   /\ entities'[e] = entities[e]]_vars

\* after the broadcast of a frame: one non-collider was told its position
\* and stands in other cells than before, another had not moved and was
\* told nothing
NonColliderBroadcastWitness ==
    /\ pc = "softs"
    /\ \E e \in Range(nonColliders), o \in Range(nonColliders) :
          /\ \E i \in 1..Len(log) :
                /\ log[i].name = "relocate-entity"
                /\ log[i].target = e
                /\ <<log[i].x, log[i].y>> = <<entities[e].x, entities[e].y>>
          /\ trace.start[e][1] /= trace.start[e][3]
          /\ CellsOf(mapDown(GetAABB(entities, e))) /= CellsOf(mapDown(BoxAt(e, trace.start[e][3], trace.start[e][4])))
          /\ SingleRect(e)
          /\ o /= e
          /\ \A i \in 1..Len(log) : log[i].target /= o


\* a body the handler leaves out of a frame
Excluded(e) == Def(e).immobile \/ Def(e).collisionTypes = <<>>

\* a step of the "check-collision-group" handler
FrameStep == frame' /= frame \/ pc \notin {"new", "idle"}

\* the bodies in the lists checkCamera fills
Listed5(all, solids, softs, nons, groups) ==
    Range(all) \cup Range(solids) \cup Range(softs) \cup Range(nons) \cup Range(groups)

\* a body without collision types is in no list of any cell
ZeroTypesUnindexed == \A e \in Ent : Def(e).collisionTypes = <<>> => EntriesOf(againstGrid, e) = {}

\* C15: an immobile body or one without collision types is in none of the
\* lists of a frame, no step of a frame changes any of its fields or
\* triggers relocate-entity on it, and a body without collision types is
\* in no cell list, so that no grid query returns it
ExcludedBodiesUntouched ==
    [][/\ ZeroTypesUnindexed'
       /\ \A e \in Ent : Excluded(e) =>
              /\ e \notin Listed5(allEntitiesLive', solidEntitiesLive', softEntitiesLive', nonColliders', groupsLive')
              /\ e \notin Range(solidEntities'[1])
              /\ FrameStep =>
                    /\ entities'[e] = entities[e]
                    /\ \A i \in NewEvents : ~(log'[i].target = e /\ log'[i].name = "relocate-entity")]_vars

\* a frame is over in which another body that had moved was resolved: an
\* immobile body with solid collisions, or a body without collision types
\* that had moved, was left where it stood
ExcludedBodiesWitness ==
    /\ pc = "idle"
    /\ frame > 0
    /\ \E c \in Calls : c.planned > 0
    /\ \E e \in Ent :
          /\ Excluded(e)
          /\ \/ Def(e).immobile /\ HasSolid(e)
             \/ Moved(e)
          /\ <<entities[e].x, entities[e].y>> = <<trace.start[e][1], trace.start[e][2]>>


RECURSIVE MembersOf(_)
\* the bodies a collision group resolves as one: its owner, its members and
\* the members of the groups among them
MembersOf(o) ==
    {o} \cup UNION {IF Nested(o, m) THEN MembersOf(m) ELSE {m} : m \in Range(solidEntities[o])}

\* the records of a call
RecordsOf(c) == Range(c.xData) \cup Range(c.yData)

\* the candidate shapes, per collision type, of the first pass of a
\* resolution of ent that starts in the current state
CandidatesOf(ent, isGroup) ==
    SweepTypes(Len(EogCollisionTypes(ent, isGroup)),
               EogPrepareCollision(entities, ent, isGroup, entities[ent].x, entities[ent].y),
               againstGrid, ent, isGroup, IF isGroup THEN solidEntities[ent] ELSE <<>>,
               EogCollisionTypes(ent, isGroup)).found

CandidateOwners(found) ==
    UNION {{found[i].shapes[k].owner : k \in 1..Len(found[i].shapes)} : i \in DOMAIN found}

\* the area the group of o sweeps with one of its collision types
SweepOfGroup(b, o, type) == Include(getAABB(b, o, type), getPreviousAABB(b, o, type))

\* a body outside the group of o that the grid holds where it stands and
\* whose sub-type the sweep of one collision type of the group meets
OutsideInSweep(b, o, type, other, subType) ==
    /\ other \notin MembersOf(o)
    /\ HasType(other, subType)
    /\ subType \in Range(getSolidCollisions(o, type))
    /\ Indexed(other)
    /\ AABBCollides(SweepOfGroup(b, o, type), GetTypeAABB(b, other, subType))

\* the group about to be resolved first, if it has moved
GroupToResolve ==
    {o \in Ent : /\ pc = "groups"
                 /\ groupsLive /= <<>>
                 /\ o = groupsLive[Len(groupsLive)]
                 /\ getSize(o) > 1
                 /\ Moved(o)}

\* the body about to be resolved first on its own, if it has moved
BodyToResolve ==
    {e \in Ent : /\ pc = "solids"
                 /\ solidEntitiesLive /= <<>>
                 /\ e = solidEntitiesLive[Len(solidEntitiesLive)]
                 /\ ~Def(e).bullet
                 /\ Moved(e)}

\* C16: no record of a call has both shapes owned by one body, and none of
\* a group call has its other shape owned by a member of the group; the
\* candidates of a group hold no shape of a member and all shapes of every
\* indexed body outside the group that its sweep meets; the candidates of
\* a body hold no shape of its own
SelfCollisionExcluded ==
    /\ \A c \in Calls : \A r \in RecordsOf(c) :
          /\ r.thisShape.owner /= r.thatShape.owner
          /\ IF c.group
             THEN r.thisShape.owner \in MembersOf(c.ent) /\ r.thatShape.owner \notin MembersOf(c.ent)
             ELSE r.thisShape.owner = c.ent
    /\ \A o \in GroupToResolve :
       \A b \in {prepareCollision(entities, o, entities[o].x, entities[o].y)} :
       \A found \in {CandidatesOf(o, TRUE)} :
          /\ CandidateOwners(found) \cap MembersOf(o) = {}
          /\ \A i \in 1..Len(getCollisionTypes(o)), other \in Ent, subType \in TypeNames :
                OutsideInSweep(b, o, getCollisionTypes(o)[i], other, subType) =>
                    Range(GetShapes(b, other, subType)) \subseteq Range(found[i].shapes)
    /\ \A e \in BodyToResolve : e \notin CandidateOwners(CandidatesOf(e, FALSE))

\* a group that holds another group was resolved after it had moved: a
\* record of the call has both shapes owned by one body, a member of the
\* inner group
SelfCollisionWitness ==
    \E c \in Calls :
       /\ c.group
       /\ c.planned > 0
       /\ \E r \in RecordsOf(c) :
             /\ r.thisShape.owner = r.thatShape.owner
             /\ r.thisShape.owner \in MembersOf(c.ent) \ (Range(solidEntities[c.ent]) \cup {c.ent})

\* every candidate shape belongs to a body that the grid lists under the
\* collision type of the shape
FromGridBodies(found) ==
    \A i \in DOMAIN found : \A k \in 1..Len(found[i].shapes) :
        /\ found[i].shapes[k].owner \in Ent
        /\ \E en \in EntriesOf(againstGrid, found[i].shapes[k].owner) : en[2] = found[i].shapes[k].collisionType

\* the area a call sweeps: from where its body stood to its goal
SweptBox(c) == Include(GoalBox(c), StartBox(c))

\* C17: while no terrain is registered, the candidates of a resolution are
\* shapes of bodies the grid lists, every record of a call is against a
\* body, and a body resolved on its own that meets no shape of another
\* body on its way ends at its goal
TerrainAbsentSkipped ==
    terrain = "null" =>
        /\ \A c \in Calls :
              /\ \A r \in RecordsOf(c) : r.thatShape.owner \in Ent
              /\ (~c.group /\ c.planned > 0 /\ NoneInTheWay(c)) =>
                    /\ RecordsOf(c) = {}
                    /\ c.after[c.ent][1] = c.pX + c.dX
                    /\ c.after[c.ent][2] = c.pY + c.dY
        /\ \A e \in BodyToResolve : FromGridBodies(CandidatesOf(e, FALSE))
        /\ \A o \in GroupToResolve : FromGridBodies(CandidatesOf(o, TRUE))

\* no terrain is registered and a body was resolved on its own: the grid
\* held no body of the sub-type it collides with, a tile of that sub-type
\* of a layer the handler was never given lies in the area the body swept,
\* and the body ended at its goal without a record
TerrainAbsentWitness ==
    /\ terrain = "null"
    /\ \E c \in Calls :
          /\ ~c.group
          /\ c.planned > 0
          /\ SingleRect(c.ent)
          /\ RecordsOf(c) = {}
          /\ c.after[c.ent][1] = c.pX + c.dX
          /\ c.after[c.ent][2] = c.pY + c.dY
          /\ \E layer \in TileLayers : \E k \in 1..Len(layer.tiles) :
                /\ layer.tiles[k].collisionType \in Range(Def(c.ent).solid[OnlyType(c.ent)])
                /\ AABBCollides(SweptBox(c), ShapeAABB(layer.tiles[k]))
                /\ \A o \in Ent : ~HasType(o, layer.tiles[k].collisionType)

(* LogicDelayMessage.  A "ticket" numbers the entries in the order they     *)
(* were enqueued; delayTrace.tickets keeps what each was enqueued with,    *)
(* the log the messages "handle-logic" triggered.                          *)

Tickets == 1..delayTrace.made

\* the records of the triggers of entry t, and its places in the queue
TriggersOf(t) == {n \in 1..Len(log) : log[n].ticket = t}

PlacesOf(t) == {i \in 1..Len(delayMessage.queue) : delayMessage.queue[i].ticket = t}

\* the trigger came at the first tick that brought the deltas since the
\* entry was enqueued to its delay
OnTime(sent) == sent.clock - sent.at >= sent.delay /\ sent.clock - sent.delta - sent.at < sent.delay

\* C18: a message enqueued with delay D is triggered at the first tick at
\* which the deltas received since it was enqueued sum to at least D and at
\* no earlier tick; a non-repeating message is triggered exactly once and
\* is then no longer in the queue.  (A message that is neither pending nor
\* triggered has been removed by the cancelEvent of its definition; a
\* pending message is not overdue.)
DelayedOnce ==
    \A t \in Tickets :
        ~delayTrace.tickets[t].repeat =>
            /\ Cardinality(TriggersOf(t)) <= 1
            /\ \A n \in TriggersOf(t) : OnTime(log[n]) /\ PlacesOf(t) = {}
            /\ (TriggersOf(t) = {} /\ PlacesOf(t) /= {}) =>
                   delayTrace.clock - delayTrace.tickets[t].at < delayTrace.tickets[t].delay
            /\ (TriggersOf(t) = {} /\ PlacesOf(t) = {}) => t \in delayTrace.cancelled

\* one tick triggers a non-repeating message twice: its own output event is
\* the cancelEvent of a definition whose pending message lies before it in
\* the queue
TriggeredTwice ==
    \E t \in Tickets :
        /\ ~delayTrace.tickets[t].repeat
        /\ \E n, m \in TriggersOf(t) : n < m /\ log[n].clock = log[m].clock
        /\ \E u \in delayTrace.cancelled :
              u < t /\ delayMessage.events[delayTrace.tickets[u].from].cancelEvent = delayTrace.tickets[t].event


\* the definitions an event received from outside is the cancelEvent of
CancelledBy(name) == {k \in 1..Len(delayMessage.events) : delayMessage.events[k].cancelEvent = name}

\* C19: after the cancelEvent of a definition is received, every pending
\* message created from that definition is removed from the queue and is
\* not triggered, whether or not its input event carried a payload.
CancelRemovesAll ==
    /\ delayTrace.op = "trigger" =>
          \A i \in 1..Len(delayMessage.queue), j \in 1..Len(delayTrace.before) :
              delayMessage.queue[i].ticket = delayTrace.before[j].ticket
                  => delayMessage.queue[i].from \notin CancelledBy(delayTrace.name)
    /\ \A n \in 1..Len(log) : log[n].ticket \notin delayTrace.outlived

\* a message whose input event carried a payload is triggered although the
\* cancelEvent of its definition was received while it was pending
PayloadOutlivesCancel ==
    \E n \in 1..Len(log) :
        /\ log[n].ticket \in delayTrace.outlived
        /\ delayTrace.tickets[log[n].ticket].payload
        /\ log[n].message = "p"


\* the definitions with singleInstance
SingleInstances == {k \in 1..Len(delayMessage.events) : delayMessage.events[k].singleInstance}

\* the places of the queue that hold a message for an output event
PendingFor(queue, event) == {i \in 1..Len(queue) : queue[i].event = event}

\* C20: for a definition with singleInstance, an input event received while
\* a message for the same output event is pending enqueues nothing; at most
\* one entry for that output event is pending at any time; and the message
\* is triggered at the time set by the input event that enqueued it.
SingleInstanceOnce ==
    \A k \in SingleInstances :
        /\ (/\ delayTrace.op = "trigger"
            /\ delayTrace.name = delayMessage.events[k].input
            /\ PendingFor(delayTrace.before, delayMessage.events[k].event) /= {})
               => \A i \in 1..Len(delayMessage.queue) :
                      delayMessage.queue[i].from = k
                          => \E j \in 1..Len(delayTrace.before) :
                                 delayTrace.before[j].ticket = delayMessage.queue[i].ticket
        /\ Cardinality(PendingFor(delayMessage.queue, delayMessage.events[k].event)) <= 1
        /\ \A t \in Tickets :
              delayTrace.tickets[t].from = k /\ ~delayTrace.tickets[t].repeat =>
                  /\ \A n \in TriggersOf(t) : OnTime(log[n])
                  /\ (TriggersOf(t) = {} /\ PlacesOf(t) /= {}) =>
                         delayTrace.clock - delayTrace.tickets[t].at < delayTrace.tickets[t].delay
                  /\ (TriggersOf(t) = {} /\ PlacesOf(t) = {}) => t \in delayTrace.cancelled

\* the time set by the input event of a singleInstance message has passed
\* and the message was neither triggered nor cancelled: the tick spliced it
\* in place of the message it had just triggered
SingleInstanceLost ==
    \E t \in Tickets :
        /\ delayTrace.tickets[t].from \in SingleInstances
        /\ TriggersOf(t) = {}
        /\ PlacesOf(t) = {}
        /\ t \notin delayTrace.cancelled
        /\ delayTrace.clock - delayTrace.tickets[t].at >= delayTrace.tickets[t].delay


\* the number of triggers of entry t up to record n of the log
RankOf(t, n) == Cardinality({m \in TriggersOf(t) : m <= n})

\* C21: a repeating message stays queued after it is triggered and is
\* triggered again each time a further delay of tick time has accumulated
\* (its n-th trigger comes at the first tick that brings the deltas since
\* it was enqueued to n times the delay), until the cancelEvent of its
\* definition is received; after that it is not queued and not triggered.
RepeatUntilCancelled ==
    \A t \in Tickets :
        delayTrace.tickets[t].repeat =>
            /\ \A n \in TriggersOf(t) :
                  /\ log[n].clock - log[n].at >= RankOf(t, n) * log[n].delay
                  /\ log[n].clock - log[n].delta - log[n].at < RankOf(t, n) * log[n].delay
            /\ PlacesOf(t) = {} <=> t \in delayTrace.cancelled
            /\ PlacesOf(t) /= {} =>
                  delayTrace.clock - delayTrace.tickets[t].at
                      < (Cardinality(TriggersOf(t)) + 1) * delayTrace.tickets[t].delay
            /\ t \notin delayTrace.outlived

\* a tick triggers a repeating message that was enqueued with a payload,
\* the cancelEvent of its definition having been received before the tick
RepeatOutlivesCancel ==
    \E t \in delayTrace.outlived :
        /\ delayTrace.tickets[t].repeat
        /\ delayTrace.op = "handle-logic"
        /\ Cardinality(TriggersOf(t)) >= 2
        /\ \E n \in TriggersOf(t) : log[n].clock = delayTrace.clock


\* the cells the grid has a map for, and the types it has a list for
GridCells == DOMAIN againstGrid

GridTypes == UNION {DOMAIN againstGrid[k] : k \in DOMAIN againstGrid}

\* how often body e is in the list of cell k under type t
TimesListed(e, k, t) == Count(CellGet(againstGrid, k, t), e)

\* the cells of the recorded range of body e
RecordedCells(e) == CellsOf(entities[e].againstAABB)

\* C22: a registered body is in the list of a cell under a type exactly
\* once if the cell lies in its recorded range (againstAABB) and the type
\* is one of its collision types, and not at all otherwise; its own
\* againstGrid list holds exactly the cells of that range.
GridIndexExact ==
    \A e \in Ent :
        entities[e].hasGrid =>
            /\ \A k \in GridCells \cup Range(RecordedCells(e)) :
               \A t \in GridTypes \cup Range(Def(e).collisionTypes) :
                  TimesListed(e, k, t) = IF k \in Range(RecordedCells(e)) /\ HasType(e, t) THEN 1 ELSE 0
            /\ Range(entities[e].againstGrid) = Range(RecordedCells(e))
            /\ Len(entities[e].againstGrid) = Len(RecordedCells(e))

\* a body added a second time after it was moved to other cells: it is
\* registered, and a cell outside its recorded range still lists it
StaleCellListed ==
    \E e \in Ent :
        /\ entities[e].hasGrid
        /\ lastOp.op = "add"
        /\ lastOp.e = e
        /\ \E k \in GridCells : \E t \in GridTypes :
              k \notin Range(RecordedCells(e)) /\ TimesListed(e, k, t) > 0


\* the soft pass of a frame is about to begin, or the frame has ended and
\* nothing was moved since
SoftPassBegins == pc = "softs"

FrameEnded == pc = "idle" /\ frame > 0 /\ lastOp.op = "checkSoftCollisions"

\* the recorded cell range of body e is the cell range of its AABB
IndexedWhereItIs(e) == AABBEquals(entities[e].againstAABB, mapDown(GetAABB(entities, e)))

\* C23: when the soft pass begins, and at the end of the frame, every live
\* mobile registered body, the members of resolved groups included, has a
\* recorded cell range equal to the cell range of its current AABB.
IndexCurrent ==
    (SoftPassBegins \/ FrameEnded) =>
        \A e \in Range(allEntitiesLive) : entities[e].hasGrid => IndexedWhereItIs(e)

\* the soft pass begins with a member of a resolved group recorded in
\* cells it has left: the group pass moved it, no later pass indexed it
MemberIndexStale ==
    /\ SoftPassBegins
    /\ \E c \in Calls : \E m \in Range(solidEntities[c.ent]) :
          /\ c.group
          /\ m /= c.ent
          /\ m \in Range(allEntitiesLive)
          /\ entities[m].hasGrid
          /\ ~IndexedWhereItIs(m)


\* the call of the axis resolver: where the shape started and was asked to
\* go on the axis, and where the call leaves it
AxisStart == Coord(axisCall.prevShape, axisCall.axis)

AxisGoal == Coord(axisCall.currentShape, axisCall.axis)

AxisResolved == IF axisCall.cd.occurred THEN axisCall.cd.position ELSE AxisGoal

AxisDirection == IF AxisStart < AxisGoal THEN 1 ELSE -1

\* the candidates the shape translated to its goal on the axis intersects
AxisHits ==
    {i \in 1..Len(axisCall.pcs) :
        ShapeCollides(MoveShape(axisCall.prevShape, axisCall.axis, AxisGoal), axisCall.pcs[i])}

\* the contact position with candidate i, as far as it is not behind the start
ContactWith(i) ==
    The({IF AxisDirection > 0 THEN Max(raw, AxisStart) ELSE Min(raw, AxisStart) :
         raw \in {ContactPosition(axisCall.axis, AxisDirection, axisCall.prevShape, axisCall.pcs[i])}})

\* C24: the resolved coordinate of an axis resolution lies between the
\* start and the goal inclusive and is the contact position nearest to the
\* start among the candidates the goal-translated shape intersects, clamped
\* to the start; a shape blocked where it starts settles at its start with
\* movement 0; without such a candidate there is no record and the shape
\* is at its goal.
AxisResolutionClamped ==
    axisCall.made =>
        /\ Min(AxisStart, AxisGoal) <= AxisResolved
        /\ AxisResolved <= Max(AxisStart, AxisGoal)
        /\ axisCall.cd.occurred <=> (AxisStart /= AxisGoal /\ AxisHits /= {})
        /\ axisCall.cd.occurred =>
              /\ \E i \in AxisHits : AxisResolved = ContactWith(i) /\ axisCall.cd.thatShape = axisCall.pcs[i]
              /\ \A i \in AxisHits : Abs(ContactWith(i) - AxisStart) >= Abs(AxisResolved - AxisStart)
              /\ axisCall.cd.deltaMovement = Abs(AxisResolved - AxisStart)
              /\ (\E i \in AxisHits : ShapeCollides(axisCall.prevShape, axisCall.pcs[i])) =>
                     AxisResolved = AxisStart /\ axisCall.cd.deltaMovement = 0

\* a call with two candidates in the way, the nearer one overlapping the
\* shape where it starts: the contact lies behind the start and the shape
\* settles at its start
AxisResolutionWitness ==
    /\ axisCall.made
    /\ Cardinality(AxisHits) = 2
    /\ axisCall.cd.occurred
    /\ AxisResolved = AxisStart
    /\ \E i \in AxisHits :
          /\ ContactPosition(axisCall.axis, AxisDirection, axisCall.prevShape, axisCall.pcs[i]) /= ContactWith(i)
          /\ axisCall.cd.thatShape = axisCall.pcs[i]
    /\ \E i \in AxisHits : ContactWith(i) /= AxisStart

---------------------------------------------------------------------------
(* The passes of the calls of a frame: a pass is one run of the body of    *)
(* the loops of checkSolidEntityCollision, an entry of the path of a call. *)

Passes == UNION {{[call |-> c, index |-> i, step |-> c.path[i]] : i \in 1..Len(c.path)} : c \in Calls}

Axes == {"x", "y"}

\* the contacts found, the records held before and kept after a pass, and
\* where the pass began, aimed and ended, on an axis
FoundOn(s, axis) == IF axis = "x" THEN s.xFound ELSE s.yFound
HeldOn(s, axis) == IF axis = "x" THEN s.held.xData ELSE s.held.yData
KeptOn(s, axis) == IF axis = "x" THEN s.kept.xData ELSE s.kept.yData
BegunAt(s, axis) == IF axis = "x" THEN s.pX ELSE s.pY
AimedAt(s, axis) == IF axis = "x" THEN s.gX ELSE s.gY
EndedAt(s, axis) == IF axis = "x" THEN s.finX ELSE s.finY

\* the movement distances of a list of records, and the smallest of them
Distances(records) == {records[i].deltaMovement : i \in 1..Len(records)}
Smallest(ds) == CHOOSE d \in ds : \A other \in ds : d <= other

\* the shapes of the body that have a contact in a list of records
ShapesIn(records) == {records[i].thisShape : i \in 1..Len(records)}

\* on an axis on which several shapes of the body found a contact, the pass
\* ends at the position it began at moved by the smallest distance found,
\* the records kept have that distance and one of them was found in this pass
SmallestApplied(s, axis) ==
    Len(FoundOn(s, axis)) > 1 =>
        /\ EndedAt(s, axis) =
               BegunAt(s, axis) + (FoundOn(s, axis)[1].direction * Smallest(Distances(FoundOn(s, axis))))
        /\ KeptOn(s, axis) /= <<>>
        /\ Distances(KeptOn(s, axis)) = {Smallest(Distances(FoundOn(s, axis)))}
        /\ \E k \in 1..Len(KeptOn(s, axis)) : KeptOn(s, axis)[k] \in Range(FoundOn(s, axis))

\* C25: whenever several shapes or several collision types of a body have a
\* contact on an axis in one pass, the body is put on that axis at its
\* previous position moved by the smallest of their movement distances, and
\* the record kept for the events is one with that distance.
SmallestContactApplied == \A p \in Passes : \A axis \in Axes : SmallestApplied(p.step, axis)

\* C25 where it holds: the passes that begin with no record on the axis
SmallestOfFreshPass ==
    \A p \in Passes : \A axis \in Axes : HeldOn(p.step, axis) = <<>> => SmallestApplied(p.step, axis)

\* a later pass of a bullet: both collision types have a contact after some
\* movement, and the body is held where it was by a record of an earlier pass
StaleRecordApplied ==
    \E p \in Passes :
        /\ p.index > 1
        /\ Len(FoundOn(p.step, "x")) > 1
        /\ Smallest(Distances(FoundOn(p.step, "x"))) > 0
        /\ HeldOn(p.step, "x") /= <<>>
        /\ KeptOn(p.step, "x") = HeldOn(p.step, "x")
        /\ EndedAt(p.step, "x") = BegunAt(p.step, "x")

\* passes in which the nearer contact is met first, last, or with another
\* as near
NearestMetLast ==
    \E p \in Passes : \E axis \in Axes :
        /\ HeldOn(p.step, axis) = <<>>
        /\ Cardinality(Distances(FoundOn(p.step, axis))) > 1
        /\ Cardinality(ShapesIn(FoundOn(p.step, axis))) > 1
        /\ SmallestApplied(p.step, axis)

\* the bodies a call moves: the body, or the members of its group
Movers(c) == IF c.group THEN Range(solidEntities[c.ent]) ELSE {c.ent}

\* shape i of collision type t of body m where a pass begins: the members of
\* a group keep their places around the body the call is made for
PlacedShape(p, m, t, i) ==
    [owner |-> m, collisionType |-> t,
     x |-> p.call.before[m][3] + (p.step.pX - p.call.pX) + Def(m).shapes[t][i].ox,
     y |-> p.call.before[m][4] + (p.step.pY - p.call.pY) + Def(m).shapes[t][i].oy,
     hw |-> Def(m).shapes[t][i].hw, hh |-> Def(m).shapes[t][i].hh]

ShapesAtStart(p) ==
    UNION {UNION {{PlacedShape(p, m, t, i) : i \in 1..Len(Def(m).shapes[t])} :
                  t \in Range(Def(m).collisionTypes)} : m \in Movers(p.call)}

\* the potential colliding shapes a pass found for a collision type
CandidatesFor(p, t) ==
    IF t \in Range(EogCollisionTypes(p.call.ent, p.call.group))
    THEN Range(p.step.shapes[IndexOf(EogCollisionTypes(p.call.ent, p.call.group), t)])
    ELSE {}

\* the shapes that shape m overlaps once it is moved by dx along X and by
\* the movement of the pass along Y
YHits(p, m, dx) ==
    {o \in CandidatesFor(p, m.collisionType) :
        ShapeCollides([m EXCEPT !.x = @ + dx, !.y = @ + (p.step.gY - p.step.pY)], o)}

\* the distance shape m moves along Y until it touches o, 0 if it is past o
YDistance(p, m, o) ==
    IF p.step.gY > p.step.pY
    THEN Abs(Max(o.y - (o.hh + m.hh), m.y) - m.y)
    ELSE Abs(Min(o.y + (o.hh + m.hh), m.y) - m.y)

\* the Y distance of the nearest contact of every shape that has one, with
\* the shapes moved by dx along X
YNearest(p, dx) ==
    {Smallest({YDistance(p, m, o) : o \in YHits(p, m, dx)}) :
        m \in {m \in ShapesAtStart(p) : YHits(p, m, dx) /= {}}}

\* where the pass should end on Y if the Y axis is resolved with the shapes
\* moved by dx along X
ExpectedY(p, dx) ==
    IF YNearest(p, dx) = {} THEN p.step.gY
    ELSE p.step.pY + ((IF p.step.gY > p.step.pY THEN 1 ELSE -1) * Smallest(YNearest(p, dx)))

\* C26: in every pass the X axis is resolved and applied before the Y axis:
\* the Y contacts are those of the shapes standing at the X the pass settled
\* on (not at the goal X, not at the X the pass began at), and a pass that
\* holds no earlier Y record ends on Y where those contacts put it.
SettledXBeforeY ==
    \A p \in Passes :
        p.step.gY /= p.step.pY =>
            /\ Distances(p.step.yFound) = YNearest(p, p.step.finX - p.step.pX)
            /\ HeldOn(p.step, "y") = <<>> => p.step.finY = ExpectedY(p, p.step.finX - p.step.pX)

\* a pass stopped on X between its begin and its goal, whose Y contact
\* exists only with the body at the settled X
SettledXWitness ==
    \E p \in Passes :
        /\ p.step.finX /= p.step.pX
        /\ p.step.finX /= p.step.gX
        /\ HeldOn(p.step, "y") = <<>>
        /\ p.step.finY = ExpectedY(p, p.step.finX - p.step.pX)
        /\ p.step.finY /= ExpectedY(p, p.step.gX - p.step.pX)
        /\ p.step.finY /= ExpectedY(p, 0)

\* the bodies whose position is their previous position
Unmoved(b, e) == b[e].x = b[e].previousX /\ b[e].y = b[e].previousY

\* the two ways checkSolidEntityCollision is called for body e
CallKinds(e) == IF Def(e).group THEN {TRUE, FALSE} ELSE {FALSE}

\* C27: for a body whose position equals its previous position on both
\* axes checkSolidEntityCollision makes no pass (no broad-phase query, no
\* prepareCollision, no relocateEntity), leaves every body and the grid as
\* they are and returns an empty collection, so that no event is emitted.
ZeroDeltaSkipped ==
    /\ \A c \in Calls :
          (c.dX = 0 /\ c.dY = 0) =>
              /\ c.path = <<>>
              /\ c.steps = 0
              /\ c.after = c.before
              /\ c.xData = <<>>
              /\ c.yData = <<>>
    /\ \A e \in Ent : \A isGroup \in CallKinds(e) :
          Unmoved(entities, e) =>
              \A r \in {checkSolidEntityCollision(entities, againstGrid, e, isGroup)} :
                  /\ r.b = entities
                  /\ r.g = againstGrid
                  /\ r.cdc = NoRecords
                  /\ CollisionMessages(r.cdc) = <<>>
                  /\ r.call.path = <<>>

\* a frame in which a registered body and a group that had not moved were
\* passed over while another body was resolved
ZeroDeltaWitness ==
    /\ \E c \in Calls : c.dX = 0 /\ c.dY = 0 /\ c.path = <<>> /\ entities[c.ent].hasGrid
    /\ \E c \in Calls : c.group /\ c.dX = 0 /\ c.dY = 0 /\ c.path = <<>>
    /\ \E c \in Calls : c.path /= <<>>

\* the extent of collision type t of body m along X (wide) or Y: the size of
\* the box around its shapes
TypeExtent(m, t, wide) ==
    IF wide
    THEN Smallest({-(Def(m).shapes[t][i].ox + Def(m).shapes[t][i].hw) : i \in 1..Len(Def(m).shapes[t])}) * (-1)
         - Smallest({Def(m).shapes[t][i].ox - Def(m).shapes[t][i].hw : i \in 1..Len(Def(m).shapes[t])})
    ELSE Smallest({-(Def(m).shapes[t][i].oy + Def(m).shapes[t][i].hh) : i \in 1..Len(Def(m).shapes[t])}) * (-1)
         - Smallest({Def(m).shapes[t][i].oy - Def(m).shapes[t][i].hh : i \in 1..Len(Def(m).shapes[t])})

\* the smallest extent of the collision types of the body of a call made
\* for the body itself
OwnExtent(c, wide) == Smallest({TypeExtent(c.ent, t, wide) : t \in Range(Def(c.ent).collisionTypes)})

\* a call for a bullet that moved
BulletCalls == {c \in Calls : Def(c.ent).bullet /\ ~c.group /\ (c.dX /= 0 \/ c.dY /= 0)}

\* the quotient 0 / 0 of a delta and an extent, with which the step count
\* is not a number
NoStepCount(c) ==
    \/ c.dX = 0 /\ OwnExtent(c, TRUE) = 0
    \/ c.dY = 0 /\ OwnExtent(c, FALSE) = 0

\* the steps one axis needs: the delta over the extent, rounded up; more
\* than the cap stands for every larger number and for infinity
StepsNeededOn(delta, extent) ==
    IF delta = 0 THEN 0
    ELSE IF extent = 0 THEN maxSteps + 1
    ELSE Min((Abs(delta) + extent - 1) \div extent, maxSteps + 1)

StepsNeeded(c) == Max(StepsNeededOn(c.dX, OwnExtent(c, TRUE)), StepsNeededOn(c.dY, OwnExtent(c, FALSE)))

PartnerShapes(e) ==
    UNION {UNION {{Def(o).shapes[t][i] : i \in 1..Len(Def(o).shapes[t])} :
                  t \in {t \in Range(Def(o).collisionTypes) :
                            \E own \in Range(Def(e).collisionTypes) : t \in Range(Def(e).solid[own])}} :
           o \in Ent \ {e}}

\* the smallest width (wide) or height of these shapes
PartnerExtent(e, wide) == Smallest({IF wide THEN 2 * sh.hw ELSE 2 * sh.hh : sh \in PartnerShapes(e)})

\* the steps needed to keep each step within the partners' extents
StepsNeededForPartners(c) ==
    Max(StepsNeededOn(c.dX, PartnerExtent(c.ent, TRUE)), StepsNeededOn(c.dY, PartnerExtent(c.ent, FALSE)))

\* the calls for a bullet that has partners and needs at most 100 steps,
\* whether counted by its own extent or by the partners'
SteppedCalls ==
    {c \in BulletCalls : /\ PartnerShapes(c.ent) /= {}
                         /\ ~NoStepCount(c)
                         /\ StepsNeeded(c) <= maxSteps
                         /\ StepsNeededForPartners(c) <= maxSteps}

\* C29: a bullet that needs at most 100 steps is moved in every step by no
\* more, on either axis, than the smallest width (on X) and height (on Y)
\* of the shapes it can collide with.
StepWithinPartners ==
    \A c \in SteppedCalls : \A i \in 1..Len(c.path) :
        /\ Abs(c.path[i].gX - c.path[i].pX) <= PartnerExtent(c.ent, TRUE)
        /\ Abs(c.path[i].gY - c.path[i].pY) <= PartnerExtent(c.ent, FALSE)

\* C29 with the extents the code takes: those of the boxes around the
\* bullet's own collision types
StepWithinOwnExtent ==
    \A c \in BulletCalls : \A i \in 1..Len(c.path) :
        StepsNeeded(c) <= maxSteps =>
            /\ Abs(c.path[i].gX - c.path[i].pX) <= OwnExtent(c, TRUE)
            /\ Abs(c.path[i].gY - c.path[i].pY) <= OwnExtent(c, FALSE)

\* a step longer than a partner is wide took a shape of the bullet from one
\* side of that partner to the other, and the pass found no contact
ThinPartnerPassed ==
    \E p \in {q \in Passes : q.call \in SteppedCalls} :
        /\ Abs(p.step.gX - p.step.pX) > PartnerExtent(p.call.ent, TRUE)
        /\ p.step.xFound = <<>>
        /\ p.step.finX = p.step.gX
        /\ \E m \in ShapesAtStart(p) : \E o \in CandidatesFor(p, m.collisionType) :
              /\ m.x + m.hw <= o.x - o.hw
              /\ o.x + o.hw <= (m.x + (p.step.gX - p.step.pX)) - m.hw
              /\ m.y - m.hh < o.y + o.hh
              /\ o.y - o.hh < m.y + m.hh

\* a pass that left the body where it was on both axes
FullyBlocked(s) == s.finX = s.pX /\ s.finY = s.pY

\* the calls of the stepping loop: a bullet that moved and has a step count
LoopCalls == {c \in BulletCalls : ~NoStepCount(c)}

\* C30: in the stepping loop of a bullet no pass follows a pass that ended
\* at the body's previous position on both axes, and a pass that moved the
\* body on an axis is followed by the next one, which begins where it
\* ended, as long as steps remain.
EarlyStop ==
    \A c \in LoopCalls : \A i \in 1..Len(c.path) :
        /\ FullyBlocked(c.path[i]) => i = Len(c.path)
        /\ (~FullyBlocked(c.path[i]) /\ i < c.planned) =>
              /\ i < Len(c.path)
              /\ c.path[i + 1].pX = c.path[i].finX
              /\ c.path[i + 1].pY = c.path[i].finY

\* a bullet that moved for some passes, was then fully blocked and made
\* none of the passes that remained
EarlyStopWitness ==
    \E c \in LoopCalls :
        /\ Len(c.path) > 1
        /\ Len(c.path) < c.planned
        /\ FullyBlocked(c.path[Len(c.path)])
        /\ \A i \in 1..(Len(c.path) - 1) : ~FullyBlocked(c.path[i])

---------------------------------------------------------------------------
(* C31: the order of the group pass.                                       *)

RECURSIVE GroupMembers(_)
\* the bodies of the group of o, those of nested groups included
GroupMembers(o) ==
    UNION {IF Nested(o, m) THEN GroupMembers(m) ELSE {m} : m \in Range(solidEntities[o])}

\* the number of members of the group of o
MemberCount(o) == Cardinality(GroupMembers(o))

\* the calls of the group pass, in the order they were made
GroupCalls == SelectSeq(trace.calls, LAMBDA c : c.group)

GroupPassDone == "groups" \in Range(trace.phases)

\* C31: once the group pass has run, the groups it resolved follow each
\* other in order of non-increasing member count, nested groups counted
\* through, and every one of them has more than one member
GroupOrderBySize ==
    GroupPassDone =>
        /\ \A i, j \in 1..Len(GroupCalls) :
              i < j => MemberCount(GroupCalls[i].ent) >= MemberCount(GroupCalls[j].ent)
        /\ \A i \in 1..Len(GroupCalls) : MemberCount(GroupCalls[i].ent) > 1

\* the same with the entries of the member lists counted instead of the
\* members: the owners listed by checkCamera with more than one entry are
\* resolved once each, in order of non-increasing getAllEntities
GroupOrderByEntries ==
    GroupPassDone =>
        /\ \A i, j \in 1..Len(GroupCalls) :
              i < j => getAllEntities(GroupCalls[i].ent) >= getAllEntities(GroupCalls[j].ent)
        /\ \A i \in 1..Len(GroupCalls) : getSize(GroupCalls[i].ent) > 1
        /\ \A o \in Ent :
              Cardinality({i \in 1..Len(GroupCalls) : GroupCalls[i].ent = o})
                  = IF IsLive(o) /\ Def(o).group /\ getSize(o) > 1 THEN 1 ELSE 0

\* a group whose only member has two solid collision types has been
\* resolved by the group pass
LoneMemberResolved ==
    /\ GroupPassDone
    /\ \E i \in 1..Len(GroupCalls) :
          /\ MemberCount(GroupCalls[i].ent) = 1
          /\ \E m \in GroupMembers(GroupCalls[i].ent) : SolidTypeCount(m) = 2

\* two groups have been resolved, the larger one first
LargerGroupFirst ==
    /\ GroupPassDone
    /\ Len(GroupCalls) = 2
    /\ MemberCount(GroupCalls[1].ent) > MemberCount(GroupCalls[2].ent)

---------------------------------------------------------------------------
(* C32: the bodies of the individual pass.                                 *)

\* the calls of the individual pass, in the order they were made
IndividualCalls == SelectSeq(trace.calls, LAMBDA c : ~c.group)

SolidPassDone == "solids" \in Range(trace.phases)

\* the bodies resolved by the group pass of this frame: the owners and the
\* members of the groups it resolved
ResolvedInGroup == UNION {{GroupCalls[i].ent} \cup GroupMembers(GroupCalls[i].ent) : i \in 1..Len(GroupCalls)}

\* the live bodies with solid collisions on one of their collision types
SolidBodies ==
    {e \in Ent : /\ ~defs[e].immobile
                 /\ \E t \in Range(defs[e].collisionTypes) : defs[e].solid[t] /= <<>>}

\* C32 as stated: once the individual pass has run, no body it resolved
\* was resolved by the group pass of the same frame
NoDoubleResolution ==
    SolidPassDone => \A i \in 1..Len(IndividualCalls) : IndividualCalls[i].ent \notin ResolvedInGroup

\* C32 amended: once the individual pass has run, it has resolved every
\* live body with solid collisions exactly once, walking the list of
\* checkCamera last first, the owners and members of the groups resolved
\* before included, and every group call was made before it began
EverySolidResolvedAlone ==
    SolidPassDone =>
        /\ Range(solidEntitiesLive) = SolidBodies
        /\ Len(IndividualCalls) = Cardinality(SolidBodies)
        /\ \A i \in 1..Len(IndividualCalls) :
              IndividualCalls[i].ent = solidEntitiesLive[Len(solidEntitiesLive) + 1 - i]
        /\ \A i, j \in 1..Len(trace.calls) : (trace.calls[i].group /\ ~trace.calls[j].group) => i < j
        /\ ResolvedInGroup \cap SolidBodies \subseteq {IndividualCalls[i].ent : i \in 1..Len(IndividualCalls)}

\* a frame in which a group of three has been resolved and each of its
\* three bodies has then been resolved on its own
ResolvedTwice ==
    /\ SolidPassDone
    /\ \E i \in 1..Len(GroupCalls) :
          /\ MemberCount(GroupCalls[i].ent) = 3
          /\ \A m \in GroupMembers(GroupCalls[i].ent) :
                \E j \in 1..Len(IndividualCalls) : IndividualCalls[j].ent = m

---------------------------------------------------------------------------
(* C33: the lists of checkCamera.                                          *)

\* checkCamera has run
Classified == frame > 0

\* the bodies checkCamera lets through: not immobile, with collision types
LiveBodies == {e \in Ent : ~defs[e].immobile /\ defs[e].collisionTypes /= <<>>}

\* the live bodies with soft collisions on one of their collision types
SoftBodies ==
    {e \in LiveBodies : \E t \in Range(defs[e].collisionTypes) : defs[e].soft[t] /= <<>>}

\* list holds each body of S once and nothing else
HoldsOnce(list, S) == Range(list) = S /\ Len(list) = Cardinality(S)

\* C33 as stated: solids, softs and non-colliders are pairwise disjoint,
\* together they hold every live body, and a non-collider has neither
\* solid nor soft collisions
ClassesPartition ==
    Classified =>
        /\ Range(solidEntitiesLive) \cap Range(softEntitiesLive) = {}
        /\ Range(solidEntitiesLive) \cap Range(nonColliders) = {}
        /\ Range(softEntitiesLive) \cap Range(nonColliders) = {}
        /\ Range(solidEntitiesLive) \cup Range(softEntitiesLive) \cup Range(nonColliders) = LiveBodies
        /\ Range(nonColliders) \cap (SolidBodies \cup SoftBodies) = {}

\* C33 amended: every live body is listed once as live; it is listed once
\* as solid if it has solid collisions and once as non-collider if it has
\* none, so these two lists part the live bodies; it is listed once as soft
\* if it has soft collisions, whichever of the two it is in
ClassesBySolidAndSoft ==
    Classified =>
        /\ HoldsOnce(allEntitiesLive, LiveBodies)
        /\ HoldsOnce(solidEntitiesLive, SolidBodies)
        /\ HoldsOnce(nonColliders, LiveBodies \ SolidBodies)
        /\ HoldsOnce(softEntitiesLive, SoftBodies)

\* a frame with a body listed as solid and as soft, and another listed as
\* soft and as non-collider
ListedInTwoClasses ==
    /\ Classified
    /\ Range(solidEntitiesLive) \cap Range(softEntitiesLive) /= {}
    /\ Range(nonColliders) \cap Range(softEntitiesLive) /= {}

---------------------------------------------------------------------------
(* C34: the key of a cell.  A key is kept as the two 16-bit halves of the  *)
(* unsigned 32-bit number, so two keys are the same number when both       *)
(* halves are equal.                                                       *)

\* key is an unsigned 32-bit number
IsKey(key) == key[1] \in 0..(Pow2(16) - 1) /\ key[2] \in 0..(Pow2(16) - 1)

\* 0 <= x < 65536 and 0 <= y < 65536
InKeyRange(cell) == cell[1] \in 0..(Pow2(16) - 1) /\ cell[2] \in 0..(Pow2(16) - 1)

\* C34: equal cells have equal keys, every key is an unsigned 32-bit
\* number, and two distinct cells with both coordinates in 0..65535 have
\* distinct keys
KeyInjectiveInRange ==
    cellCall.made =>
        /\ cellCall.first = cellCall.second => cellCall.firstKey = cellCall.secondKey
        /\ IsKey(cellCall.firstKey) /\ IsKey(cellCall.secondKey)
        /\ (InKeyRange(cellCall.first) /\ InKeyRange(cellCall.second) /\ cellCall.first /= cellCall.second)
               => cellCall.firstKey /= cellCall.secondKey

\* the keys of the cells (65535, 1) and (1, 65535), both in the range, have
\* been computed and differ: 0x0001FFFF and 0xFFFF0001
KeysAtRangeEnds ==
    /\ cellCall.made
    /\ cellCall.first = <<65535, 1>>
    /\ cellCall.second = <<1, 65535>>
    /\ cellCall.firstKey = <<1, 65535>>
    /\ cellCall.secondKey = <<65535, 1>>

\* beyond the range keys are shared: the cells (65536, 0) and (0, 1) both
\* have the key 0x00010000
KeysSharedBeyondRange ==
    /\ cellCall.made
    /\ cellCall.first = <<65536, 0>>
    /\ cellCall.second = <<0, 1>>
    /\ cellCall.firstKey = <<1, 0>>
    /\ cellCall.secondKey = <<1, 0>>

---------------------------------------------------------------------------
(* C35: events triggered on an entity before its components are ready.    *)

\* the places in the deliveries
Deliveries == 1..Len(newEntity.delivered)

\* the deliveries of saved events, in the order they were made
SavedDeliveries == SelectSeq(newEntity.delivered, LAMBDA d : d.saved)

\* the places where event was delivered
DeliveredAt(event) == {i \in Deliveries : newEntity.delivered[i].event = event}

LastComponentAddedAfterLoad ==
    /\ newEntity.stage = "loaded"
    /\ \E i \in DeliveredAt("component-added"), c \in DeliveredAt("callback()") :
          c < i /\ ~newEntity.delivered[i].saved


\* the events the component itself listens for
HandledByAudioVO == AudioKeys \cup {"stop-audio"}

TimedInOrder ==
    \A i, j \in DOMAIN audioVO.triggered :
        (i < j /\ audioVO.triggered[i].n > 0 /\ audioVO.triggered[j].n > 0
               /\ audioVO.triggered[i].vo = audioVO.triggered[j].vo)
            => audioVO.triggered[i].time <= audioVO.triggered[j].time

TimedAtMostOnce ==
    \A i, j \in DOMAIN audioVO.triggered :
        (i < j /\ audioVO.triggered[i].n > 0 /\ audioVO.triggered[i].vo = audioVO.triggered[j].vo)
            => audioVO.triggered[i].n /= audioVO.triggered[j].n

TimedNotEarly ==
    \A i \in DOMAIN audioVO.triggered :
        (audioVO.triggered[i].n > 0 /\ audioVO.triggered[i].by = "render")
            => audioVO.triggered[i].time <= audioVO.triggered[i].elapsed

PendingBeforeComplete ==
    \A i \in DOMAIN audioVO.triggered :
        (audioVO.triggered[i].n = 0 /\ audioVO.triggered[i].by = "completed")
            => \A n \in DOMAIN audioVO.lists[audioVO.triggered[i].vo] :
                   \E j \in 1..(i - 1) : /\ audioVO.triggered[j].vo = audioVO.triggered[i].vo
                                         /\ audioVO.triggered[j].n = n

TimedEventsAsListed == TimedInOrder /\ TimedAtMostOnce /\ TimedNotEarly /\ PendingBeforeComplete

\* C36: after a voice-over starts with an event list, its events are
\* triggered in non-decreasing order of time, each at most once, none by
\* handle-render before the player's elapsed time reaches its time, and when
\* the playback completes every event of the list has been triggered before
\* sequence-complete.
TimedEventsInOrder == audioVO.stage = "ready" => TimedEventsAsListed

\* C36, the case it fails in: an event of a list is one of the component's
\* own messages, and an event of the voice-over it starts is triggered by
\* handle-render before that playback's elapsed time, is triggered twice, or
\* leaves the list without being triggered before the playback completes.
TimedEventLostOrEarly ==
    /\ audioVO.stage = "ready"
    /\ \E i \in DOMAIN audioVO.triggered : audioVO.triggered[i].event \in HandledByAudioVO
    /\ ~TimedEventsAsListed

\* C36, the rest of the claim: as long as no triggered event is one the
\* component listens for itself, the events are triggered as the claim says.
TimedEventsOfOtherListeners ==
    (/\ audioVO.stage = "ready"
     /\ \A i \in DOMAIN audioVO.triggered : audioVO.triggered[i].event \notin HandledByAudioVO)
        => TimedEventsAsListed

\* C36: a voice-over has completed after some of its events were triggered by
\* handle-render and the others on completion.
TimedEventsAllTriggered ==
    /\ audioVO.stage = "ready"
    /\ \A i \in DOMAIN audioVO.triggered : audioVO.triggered[i].event \notin HandledByAudioVO
    /\ \E i, j, k \in DOMAIN audioVO.triggered :
           /\ audioVO.triggered[k].n = 0 /\ audioVO.triggered[k].by = "completed"
           /\ audioVO.triggered[i].vo = audioVO.triggered[k].vo
           /\ audioVO.triggered[j].vo = audioVO.triggered[k].vo
           /\ audioVO.triggered[i].by = "render" /\ audioVO.triggered[j].by = "complete"


\* the bodies that own a collision group
GroupOwners == {o \in DOMAIN solidEntities : Def(o).group}

\* how often body m is listed in the group of o
TimesInGroup(o, m) == Cardinality({i \in DOMAIN solidEntities[o] : solidEntities[o][i] = m})

\* a group call that met nothing
FreeGroupCalls == {c \in Calls : c.group /\ (c.dX /= 0 \/ c.dY /= 0) /\ c.xData = <<>> /\ c.yData = <<>>}

\* C37: after any sequence of add-collision-entity and remove-collision-entity
\* events a group's list holds each body at most once, so getSize is the
\* number of distinct members and one body alone never gives a size above 1,
\* and a group resolved without a collision has moved each member that had
\* not moved by itself by the group's delta, once.
MembersListedOnce ==
    /\ \A o \in GroupOwners :
          /\ \A m \in Range(solidEntities[o]) : TimesInGroup(o, m) = 1
          /\ getSize(o) = Cardinality(Range(solidEntities[o]))
          /\ Cardinality(Range(solidEntities[o])) <= 1 => getSize(o) <= 1
    /\ pc = "idle" =>
          \A c \in FreeGroupCalls :
              \A m \in Range(solidEntities[c.ent]) :
                  (m /= c.ent /\ AtRest(c.before[m])) =>
                      /\ c.after[m][1] = c.before[m][3] + c.dX
                      /\ c.after[m][2] = c.before[m][4] + c.dY

\* C37, the case it fails in: one add-collision-entity event for a body with
\* two solid collision types has just been handled; the body is listed twice
\* and is the only member of a group of size 2
MemberListedTwice ==
    /\ lastOp.op = "add-collision-entity"
    /\ \E o \in GroupOwners :
          /\ Cardinality(Range(solidEntities[o])) = 1
          /\ getSize(o) = 2
          /\ TimesInGroup(o, lastOp.e) = 2
          /\ SolidTypeCount(lastOp.e) = 2

\* a body with one solid collision type is listed twice after two events
MemberAddedTwice ==
    \E o \in GroupOwners : \E m \in Range(solidEntities[o]) :
        SolidTypeCount(m) = 1 /\ TimesInGroup(o, m) = 2

\* a body with two solid collision types is still listed after a
\* remove-collision-entity event for it
MemberLeftBehind ==
    /\ lastOp.op = "remove-collision-entity"
    /\ \E o \in GroupOwners : TimesInGroup(o, lastOp.e) > 0

\* a member listed twice was moved by something else than the group's delta
MemberMovedTwice ==
    /\ pc = "idle"
    /\ \E c \in FreeGroupCalls : \E m \in Range(solidEntities[c.ent]) :
          /\ m /= c.ent /\ AtRest(c.before[m])
          /\ TimesInGroup(c.ent, m) > 1
          /\ <<c.after[m][1], c.after[m][2]>> /= <<c.before[m][3] + c.dX, c.before[m][4] + c.dY>>

\* a member listed once was moved by something else than the group's delta
MemberMovedAstray ==
    /\ pc = "idle"
    /\ \E c \in FreeGroupCalls : \E m \in Range(solidEntities[c.ent]) :
          /\ m /= c.ent /\ AtRest(c.before[m])
          /\ \A k \in Range(solidEntities[c.ent]) : TimesInGroup(c.ent, k) = 1
          /\ <<c.after[m][1], c.after[m][2]>> /= <<c.before[m][3] + c.dX, c.before[m][4] + c.dY>>


\* the bodies as the first step of a resolution of ent finds them
PreparedFor(ent, isGroup) == EogPrepareCollision(entities, ent, isGroup, entities[ent].x, entities[ent].y)

\* the area that step sweeps with one collision type
FirstSweep(ent, isGroup, type) ==
    Include(EogAABB(PreparedFor(ent, isGroup), ent, isGroup, type),
            EogPreviousAABB(PreparedFor(ent, isGroup), ent, isGroup, type))

\* the bodies the cells of that area list under a sub-type
HeldInSweep(ent, isGroup, type, subType) ==
    UNION {Range(CellGet(againstGrid, k, subType)) : k \in Range(CellsOf(mapDown(FirstSweep(ent, isGroup, type))))}

\* the tiles of a sub-type among candidate shapes
TilesAmong(shapes, subType) ==
    {k \in DOMAIN shapes : shapes[k].owner = 0 /\ shapes[k].collisionType = subType}

\* the tiles of a sub-type that the registered layer has in that area
TilesInSweep(ent, isGroup, type, subType) ==
    IF terrain = "null" THEN <<>>
    ELSE getTileShapes(LayerNamed(terrain), FirstSweep(ent, isGroup, type),
                       EogPreviousAABB(PreparedFor(ent, isGroup), ent, isGroup, type), subType)

\* the resolutions about to start: <<body or group owner, isGroup>>
AboutToResolve == {<<e, FALSE>> : e \in BodyToResolve} \cup {<<o, TRUE>> : o \in GroupToResolve}

\* C38: the candidates of a step hold tile shapes of a sub-type only if
\* the cells the step sweeps list no body under that sub-type; when they
\* list one, be it the moving body itself or a member of the moving group,
\* no tile of that sub-type is a candidate.
TerrainOnlyWhenGridEmpty ==
    \A r \in AboutToResolve :
        \A i \in DOMAIN EogCollisionTypes(r[1], r[2]) :
            \A subType \in Range(EogSolidCollisions(r[1], r[2], EogCollisionTypes(r[1], r[2])[i])) :
                /\ TilesAmong(CandidatesOf(r[1], r[2])[i].shapes, subType) /= {} =>
                      /\ terrain /= "null"
                      /\ HeldInSweep(r[1], r[2], EogCollisionTypes(r[1], r[2])[i], subType) = {}
                /\ HeldInSweep(r[1], r[2], EogCollisionTypes(r[1], r[2])[i], subType) /= {} =>
                      \A k \in DOMAIN CandidatesOf(r[1], r[2])[i].shapes :
                          CandidatesOf(r[1], r[2])[i].shapes[k].owner /= 0

\* C38: when the cells list no body under the sub-type, the tiles of the
\* registered layer that the sweep meets are the tile candidates
TerrainConsultedOtherwise ==
    \A r \in AboutToResolve :
        \A i \in DOMAIN EogCollisionTypes(r[1], r[2]) :
            \A subType \in Range(EogSolidCollisions(r[1], r[2], EogCollisionTypes(r[1], r[2])[i])) :
                HeldInSweep(r[1], r[2], EogCollisionTypes(r[1], r[2])[i], subType) = {} =>
                    {CandidatesOf(r[1], r[2])[i].shapes[k] :
                         k \in TilesAmong(CandidatesOf(r[1], r[2])[i].shapes, subType)}
                      = Range(TilesInSweep(r[1], r[2], EogCollisionTypes(r[1], r[2])[i], subType))

\* a layer is registered, a tile of the sub-type lies in the sweep of a
\* body about to be resolved, the cells of the sweep list under that
\* sub-type nothing but the body itself, and no tile is a candidate
TileSkippedForOwnBody ==
    /\ terrain /= "null"
    /\ \E e \in BodyToResolve : \E subType \in Range(Def(e).solid[OnlyType(e)]) :
          /\ HeldInSweep(e, FALSE, OnlyType(e), subType) = {e}
          /\ TilesInSweep(e, FALSE, OnlyType(e), subType) /= <<>>
          /\ TilesAmong(CandidatesOf(e, FALSE)[1].shapes, subType) = {}

\* the same for a group: the cells list only members of the group
TileSkippedForMember ==
    /\ terrain /= "null"
    /\ \E o \in GroupToResolve : \E i \in DOMAIN getCollisionTypes(o) :
          \E subType \in Range(getSolidCollisions(o, getCollisionTypes(o)[i])) :
              /\ HeldInSweep(o, TRUE, getCollisionTypes(o)[i], subType) /= {}
              /\ HeldInSweep(o, TRUE, getCollisionTypes(o)[i], subType) \subseteq Range(solidEntities[o])
              /\ TilesInSweep(o, TRUE, getCollisionTypes(o)[i], subType) /= <<>>
              /\ TilesAmong(CandidatesOf(o, TRUE)[i].shapes, subType) = {}

\* a layer is registered, the cells list no body of the sub-type, and the
\* tiles in the sweep are candidates
TileTakenAsCandidate ==
    /\ terrain /= "null"
    /\ \E e \in BodyToResolve : \E subType \in Range(Def(e).solid[OnlyType(e)]) :
          /\ HeldInSweep(e, FALSE, OnlyType(e), subType) = {}
          /\ TilesAmong(CandidatesOf(e, FALSE)[1].shapes, subType) /= {}

\* a frame has ended in which the only body of a collision type, which
\* collides with its own type, went through a tile of that type of the
\* registered layer to its goal
TilePassedThrough ==
    /\ terrain /= "null"
    /\ pc = "idle"
    /\ \E c \in Calls :
          /\ ~c.group /\ c.planned > 0 /\ SingleRect(c.ent)
          /\ OnlyType(c.ent) \in Range(Def(c.ent).solid[OnlyType(c.ent)])
          /\ \A o \in Ent \ {c.ent} : ~HasType(o, OnlyType(c.ent))
          /\ RecordsOf(c) = {}
          /\ c.after[c.ent][1] = c.pX + c.dX
          /\ \E k \in DOMAIN LayerNamed(terrain).tiles :
                /\ LayerNamed(terrain).tiles[k].collisionType = OnlyType(c.ent)
                /\ AABBCollides(GoalBox(c), ShapeAABB(LayerNamed(terrain).tiles[k]))


\* the passes of the calls that move their body in several steps
BulletPasses == {p \in Passes : p.call.planned > 1}

\* where a record puts the body on its axis in a pass
PutBy(s, axis, record) == BegunAt(s, axis) + (record.direction * record.deltaMovement)

\* no contact on the axis in the pass: the pass ends at its goal
GoalWhenFree(s, axis) == FoundOn(s, axis) = <<>> => EndedAt(s, axis) = AimedAt(s, axis)

\* a pass that does not end at its goal ends where a contact found in this
\* pass puts the body
OwnRecordApplied(s, axis) ==
    EndedAt(s, axis) /= AimedAt(s, axis) =>
        \E k \in 1..Len(FoundOn(s, axis)) : EndedAt(s, axis) = PutBy(s, axis, FoundOn(s, axis)[k])

\* C39: in a resolution of several steps, a step in which no candidate
\* yields a collision on an axis puts the body at the step's goal on that
\* axis, and a record accepted in an earlier step never decides where a
\* later step puts the body.
StepGoalApplied ==
    \A p \in BulletPasses : \A axis \in Axes :
        /\ GoalWhenFree(p.step, axis)
        /\ OwnRecordApplied(p.step, axis)

\* C39, the case it fails in: a later step finds no contact on x, holds a
\* record of an earlier step, and ends on x where that record puts the body
\* instead of at its goal
EarlierRecordDecides ==
    \E p \in BulletPasses :
        /\ p.index > 1
        /\ FoundOn(p.step, "x") = <<>>
        /\ HeldOn(p.step, "x") /= <<>>
        /\ KeptOn(p.step, "x") = HeldOn(p.step, "x")
        /\ AimedAt(p.step, "x") /= BegunAt(p.step, "x")
        /\ EndedAt(p.step, "x") /= AimedAt(p.step, "x")
        /\ EndedAt(p.step, "x") = PutBy(p.step, "x", HeldOn(p.step, "x")[1])

\* C39 where it holds: the steps that begin without a record on the axis
StepGoalOfFreshPass ==
    \A p \in BulletPasses : \A axis \in Axes :
        HeldOn(p.step, axis) = <<>> => (GoalWhenFree(p.step, axis) /\ OwnRecordApplied(p.step, axis))

\* a step of a bullet without a contact and without a record ends at its goal
FreeStepAtGoal ==
    \E p \in BulletPasses : \E axis \in Axes :
        /\ HeldOn(p.step, axis) = <<>>
        /\ FoundOn(p.step, axis) = <<>>
        /\ AimedAt(p.step, axis) /= BegunAt(p.step, axis)
        /\ EndedAt(p.step, axis) = AimedAt(p.step, axis)


\* the events this component listens for: the inputs and the cancelEvents
\* of its definitions
HeardByDelay ==
    {delayMessage.events[k].input : k \in DOMAIN delayMessage.events}
        \cup ({delayMessage.events[k].cancelEvent : k \in DOMAIN delayMessage.events} \ {"none"})

\* the queues have one length and the time beside a non-repeating entry is
\* its delay less the deltas since it was enqueued
TimesBesideEntries ==
    /\ Len(delayMessage.queueTimes) = Len(delayMessage.queue)
    /\ \A i \in DOMAIN delayMessage.queue :
          /\ ~TimeAt(delayMessage.queueTimes, i).nan
          /\ ~delayMessage.queue[i].repeat =>
                TimeAt(delayMessage.queueTimes, i).v
                    = delayMessage.queue[i].delay - (delayTrace.clock - delayMessage.queue[i].at)

\* no entry is triggered twice by one "handle-logic"
OncePerPass ==
    \A t \in Tickets : \A n, m \in TriggersOf(t) : n /= m => log[n].clock /= log[m].clock

\* a non-repeating entry that has left the queue was triggered or cancelled
NoneLost ==
    \A t \in Tickets :
        (~delayTrace.tickets[t].repeat /\ PlacesOf(t) = {}) => (TriggersOf(t) /= {} \/ t \in delayTrace.cancelled)

\* C40: when the handler of a message triggered during a handle-logic pass
\* enqueues a delayed message or cancels pending ones, queue and queueTimes
\* keep one length with each time beside its own entry, no pending message
\* is triggered twice or counted down twice in the pass, and no message
\* that is neither due nor cancelled is removed.
ReentrantPassSafe == delayTrace.made > 0 => (TimesBesideEntries /\ OncePerPass /\ NoneLost)

\* a message triggered by handle-logic was heard by the component itself
HeardOwnMessage == \E n \in 1..Len(log) : log[n].name \in HeardByDelay

\* C40, the case it fails in: a triggered message was the cancelEvent of a
\* definition with a pending entry before it in the queue, and after the
\* pass the times no longer lie beside their entries or an entry was
\* triggered twice
ReentrantCancelUnsafe ==
    /\ delayTrace.op = "handle-logic"
    /\ \E n \in 1..Len(log) :
          /\ log[n].clock = delayTrace.clock
          /\ \E u \in delayTrace.cancelled :
                /\ u < log[n].ticket
                /\ delayMessage.events[delayTrace.tickets[u].from].cancelEvent = log[n].name
    /\ ~(TimesBesideEntries /\ OncePerPass)

\* C40 where it holds: no triggered message is heard by the component
SafeWithoutReentrancy == (delayTrace.made > 0 /\ ~HeardOwnMessage) => (TimesBesideEntries /\ OncePerPass /\ NoneLost)

\* C40 where it holds: the triggered messages the component hears only
\* enqueue
SafeWhenOnlyEnqueueing ==
    (/\ delayTrace.made > 0
     /\ \A n \in 1..Len(log) :
           log[n].name \notin {delayMessage.events[k].cancelEvent : k \in DOMAIN delayMessage.events})
        => (TimesBesideEntries /\ OncePerPass /\ NoneLost)

\* a message triggered by handle-logic has enqueued another in the same pass
EnqueuedInPass ==
    /\ delayTrace.op = "handle-logic"
    /\ \E n \in 1..Len(log) : \E t \in Tickets :
          /\ log[n].clock = delayTrace.clock
          /\ delayTrace.tickets[t].at = delayTrace.clock
          /\ delayMessage.events[delayTrace.tickets[t].from].input = log[n].name
          /\ PlacesOf(t) /= {}

=============================================================================
